---- MODULE Spec2Model ----
(***************************************************************************)
(* Model of komun-api's multi-tenant data-access core and of the budget    *)
(* approval workflow built on it.                                          *)
(*                                                                         *)
(*   SpecTenantDb  : tenantSchemaName / tenantDb (src/db/tenantDb.ts),     *)
(*                   concurrent calls over a shared pg connection pool.    *)
(*   SpecApproval  : POST /periods/:id/approve and /reject                 *)
(*                   (routes/budgetApproval.ts), concurrent requests, one  *)
(*                   step per tenantDb transaction of the handler.         *)
(*   SpecQuorum    : the approve handler run request after request on      *)
(*                   buildings of 1..MaxUnitCount units.                   *)
(*   SpecSend      : POST /periods/:id/send-for-approval and PATCH         *)
(*                   /periods/:id (routes/dashboard.ts), concurrent        *)
(*                   requests, one step per statement of the transaction.  *)
(*   SpecCreate    : POST /periods and POST /periods/:id/lines             *)
(*                   (routes/dashboard.ts), concurrent transactions that   *)
(*                   may fail at any statement.                            *)
(*   SpecAuth      : the requireTenant middleware (middleware/auth.ts).    *)
(*   SpecTenant    : createTenant and runTenantMigrations (src/db),        *)
(*                   concurrent calls over the shared pool.                *)
(*   SpecLedger    : POST /buildings/:id/transactions                      *)
(*                   (routes/buildings.ts) with POST, PATCH and DELETE     *)
(*                   of periods.                                           *)
(*   SpecLifecycle : send-for-approval, approve and PATCH /periods/:id     *)
(*                   together: the status of a period.                     *)
(*   SpecNotify    : the notifications of send-for-approval for units      *)
(*                   with and without a contribution row.                  *)
(***************************************************************************)
EXTENDS Integers, Sequences, FiniteSets, Bags, TLC

(***************************************************************************)
(* Bounds of the model.                                                    *)
(***************************************************************************)
NumCalls == 2
PoolMax == 2
MaxWrites == 1
NumRequests == 2
MaxUnits == 2
MaxUnitCount == 10
MaxLines == 2

\* Statements of the tenant migration batch.
MaxStatements == 2

VARIABLES pool, committed, call, approvals, periods, unitCount, req, now,
          emails, budgetLines, budgetUnitContributions, buildingFinancials,
          feeTemplates, financialTransactions

tdbVars == <<pool, committed, call>>
apprVars == <<approvals, periods, unitCount, req, now>>
budgetVars == <<budgetLines, budgetUnitContributions, buildingFinancials, feeTemplates,
               financialTransactions>>
vars == <<pool, committed, call, approvals, periods, unitCount, req, now,
          emails, budgetLines, budgetUnitContributions, buildingFinancials,
          feeTemplates, financialTransactions>>

(***************************************************************************)
(* Strings are sequences of one-character strings, so that length tests,   *)
(* character-class tests and concatenation are computed, not assumed.      *)
(***************************************************************************)
Repeat(ch, n) == [i \in 1..n |-> ch]

LowerAlpha ==
  {"a","b","c","d","e","f","g","h","i","j","k","l","m",
   "n","o","p","q","r","s","t","u","v","w","x","y","z"}

Digits == {"0","1","2","3","4","5","6","7","8","9"}

\* The character class [a-z0-9_-].
SlugClass == LowerAlpha \cup Digits \cup {"_", "-"}

\* The same character class without the anchors (/[a-z0-9_-]+/): one allowed
\* character anywhere is enough.
SLUG_REGEX_test_Unanchored(slug) ==
  \E i \in 1..Len(slug) : slug[i] \in SlugClass

\* const SLUG_REGEX = /^[a-z0-9_-]+$/  : one or more characters, every one
\* of them in the class (both ends anchored, no flags).
SLUG_REGEX_test(slug) ==
  /\ Len(slug) >= 1
  /\ \A i \in 1..Len(slug) : slug[i] \in SlugClass

MAX_SLUG_LENGTH == 64

InvalidTenantSlug == "Invalid tenant slug"

\* The prefix written with a dash instead of the underscore.
TenantPrefix_Dash == <<"t","e","n","a","n","t","-">>

TenantPrefix == <<"t","e","n","a","n","t","_">>

\* tenantSchemaName(slug): throws Error("Invalid tenant slug") or returns
\* `tenant_${slug}`.
tenantSchemaName(slug) ==
  IF Len(slug) = 0 \/ Len(slug) > MAX_SLUG_LENGTH \/ ~SLUG_REGEX_test(slug)
  THEN [ok |-> FALSE, error |-> InvalidTenantSlug, value |-> <<>>]
  ELSE [ok |-> TRUE, error |-> "none", value |-> TenantPrefix \o slug]

(***************************************************************************)
(* Slugs handed to tenantDb: two well-formed ones (the second of maximal   *)
(* length) and one for each way of being malformed.                        *)
(***************************************************************************)
SlugInputs ==
  { <<"a">>, Repeat("z", MAX_SLUG_LENGTH),
    <<>>, Repeat("a", MAX_SLUG_LENGTH + 1),
    <<"A">>, <<"a", " ">>, <<"!", "a">>, <<"a", "\n">> }

(***************************************************************************)
(* The pool (db/index.ts: new Pool({connectionString})) and its            *)
(* connections.  A connection is its session state on the server: the      *)
(* transaction status, the search path and the uncommitted writes.  The    *)
(* pool is the bag of its idle connections and the number of connections   *)
(* it has open (idle or checked out), at most PoolMax.                     *)
(***************************************************************************)
Calls == 1..NumCalls

Public == <<"p","u","b","l","i","c">>
DefaultPath == <<Public>>

FreshConn == [txn |-> "none", path |-> DefaultPath, pending |-> {}, broken |-> FALSE]

NoClient == [txn |-> "released", path |-> <<>>, pending |-> {}, broken |-> FALSE]

NoCall == [pc |-> "idle", slug |-> <<>>, schemaName |-> <<>>, client |-> NoClient,
           caught |-> "none", thrown |-> "none", result |-> "none",
           nWrites |-> 0, connects |-> 0, begins |-> 0, fnCalls |-> 0,
           releases |-> 0, endAttempts |-> 0, releasedAfterEnd |-> FALSE,
           rollbackFailed |-> FALSE]

\* The approval workflow is not exercised by SpecTenantDb.
ApprovalIdle ==
  /\ approvals = <<>>
  /\ periods = <<>>
  /\ unitCount = 0
  /\ req = <<>>
  /\ now = 0

\* No mail is sent and the budget tables are empty where a specification
\* does not exercise them.
BudgetIdle ==
  /\ emails = {}
  /\ budgetLines = <<>>
  /\ budgetUnitContributions = <<>>
  /\ buildingFinancials = <<>>
  /\ feeTemplates = <<>>
  /\ financialTransactions = <<>>

InitTenantDb ==
  /\ pool = [idle |-> EmptyBag, open |-> 0]
  /\ committed = {}
  /\ call = [c \in Calls |-> NoCall]
  /\ ApprovalIdle
  /\ BudgetIdle

(***************************************************************************)
(* Session state of a connection.                                          *)
(***************************************************************************)
\* client.query("BEGIN")
SessionBegin(cn) == [cn EXCEPT !.txn = "open"]

\* client.query(`SET LOCAL search_path TO "${schemaName}", public`)
SessionSetLocal(cn, schemaName) == [cn EXCEPT !.path = <<schemaName, Public>>]

\* A write through the handle.  An unqualified table resolves against the
\* first schema of the search path.
SessionWrite(cn, c, n) ==
  [cn EXCEPT !.pending = @ \cup {[call |-> c, n |-> n, schema |-> Head(cn.path)]}]

\* The path set with a session-level SET instead of SET LOCAL: it outlives
\* the transaction.
SessionEnd_SessionPath(cn) == [cn EXCEPT !.txn = "none", !.pending = {}]

\* End of the transaction (COMMIT, ROLLBACK, or the server aborting it): the
\* uncommitted writes leave the session and, the path having been set with
\* SET LOCAL, the search path reverts to the session's own.
SessionEnd(cn) == [cn EXCEPT !.txn = "none", !.path = DefaultPath, !.pending = {}]

\* The connection is lost: the server ends the session, aborting its
\* transaction; every later query on the client is rejected.
SessionLost(cn) == [SessionEnd(cn) EXCEPT !.broken = TRUE]

(***************************************************************************)
(* tenantDb(tenantSlug, fn), one action per await.                         *)
(***************************************************************************)
\* const schemaName = tenantSchemaName(tenantSlug);   (throws: the promise
\* is rejected before pool.connect() is reached)
Invoke(c, s) ==
  /\ call[c].pc = "idle"
  /\ \A d \in Calls : d < c => call[d].pc # "idle"
  /\ LET r == tenantSchemaName(s) IN
       call' = [call EXCEPT ![c] =
         IF r.ok
         THEN [@ EXCEPT !.pc = "connect", !.slug = s, !.schemaName = r.value]
         ELSE [@ EXCEPT !.pc = "done", !.slug = s, !.thrown = r.error,
                        !.result = "threw"]]
  /\ UNCHANGED <<pool, committed>>
  /\ UNCHANGED <<apprVars, emails, budgetVars>>

\* const client = await pool.connect();  an idle connection is handed out as
\* it is (the pool does not reset its session), or a new one is opened while
\* the pool is below its maximum; otherwise the call waits.
Connect(c) ==
  /\ call[c].pc = "connect"
  /\ \/ \E cn \in BagToSet(pool.idle) :
          /\ pool' = [pool EXCEPT !.idle = @ (-) SetToBag({cn})]
          /\ call' = [call EXCEPT ![c].pc = "begin", ![c].client = cn,
                                  ![c].connects = @ + 1]
     \/ /\ BagToSet(pool.idle) = {}
        /\ pool.open < PoolMax
        /\ pool' = [pool EXCEPT !.open = @ + 1]
        /\ call' = [call EXCEPT ![c].pc = "begin", ![c].client = FreshConn,
                                ![c].connects = @ + 1]
  /\ UNCHANGED committed
  /\ UNCHANGED <<apprVars, emails, budgetVars>>

\* pool.connect() rejects (the server cannot be reached): thrown outside the
\* try block, nothing was acquired.
ConnectFail(c) ==
  /\ call[c].pc = "connect"
  /\ BagToSet(pool.idle) = {}
  /\ pool.open < PoolMax
  /\ call' = [call EXCEPT ![c].pc = "done", ![c].thrown = "ConnectError",
                          ![c].result = "threw"]
  /\ UNCHANGED <<pool, committed>>
  /\ UNCHANGED <<apprVars, emails, budgetVars>>

\* await client.query("BEGIN");
Begin(c) ==
  /\ call[c].pc = "begin"
  /\ \/ call' = [call EXCEPT ![c].pc = "set", ![c].begins = @ + 1,
                             ![c].client = SessionBegin(@)]
     \/ call' = [call EXCEPT ![c].pc = "catch", ![c].begins = @ + 1,
                             ![c].client = SessionLost(@),
                             ![c].caught = "BeginError"]
  /\ UNCHANGED <<pool, committed>>
  /\ UNCHANGED <<apprVars, emails, budgetVars>>

\* await client.query(`SET LOCAL search_path TO "${schemaName}", public`);
\* then fn(db) is invoked.
SetLocal(c) ==
  /\ call[c].pc = "set"
  /\ \/ call' = [call EXCEPT ![c].pc = "fn", ![c].fnCalls = @ + 1,
                             ![c].client = SessionSetLocal(@, call[c].schemaName)]
     \/ call' = [call EXCEPT ![c].pc = "catch", ![c].client = SessionLost(@),
                             ![c].caught = "SetError"]
  /\ UNCHANGED <<pool, committed>>
  /\ UNCHANGED <<apprVars, emails, budgetVars>>

\* fn issues one more successful write through the bound handle.
FnWrite(c) ==
  /\ call[c].pc = "fn"
  /\ call[c].nWrites < MaxWrites
  /\ call' = [call EXCEPT ![c].nWrites = @ + 1,
                          ![c].client = SessionWrite(@, c, call[c].nWrites + 1)]
  /\ UNCHANGED <<pool, committed>>
  /\ UNCHANGED <<apprVars, emails, budgetVars>>

\* fn resolves.
FnReturn(c) ==
  /\ call[c].pc = "fn"
  /\ call' = [call EXCEPT ![c].pc = "commit"]
  /\ UNCHANGED <<pool, committed>>
  /\ UNCHANGED <<apprVars, emails, budgetVars>>

\* fn rejects: an error of its own or a failed statement.  (A connection
\* lost inside fn shows as this step followed by a rejected ROLLBACK.)
FnThrow(c) ==
  /\ call[c].pc = "fn"
  /\ call' = [call EXCEPT ![c].pc = "catch", ![c].caught = "FnError"]
  /\ UNCHANGED <<pool, committed>>
  /\ UNCHANGED <<apprVars, emails, budgetVars>>

\* await client.query("COMMIT"); return result;
Commit(c) ==
  /\ call[c].pc = "commit"
  /\ \/ /\ committed' = committed \cup call[c].client.pending
        /\ call' = [call EXCEPT ![c].pc = "finally", ![c].endAttempts = @ + 1,
                                ![c].client = SessionEnd(@)]
     \/ \* COMMIT is rejected: the server has ended the transaction without
        \* committing it (failed deferred check, session going away).
        /\ call' = [call EXCEPT ![c].pc = "catch", ![c].endAttempts = @ + 1,
                                ![c].client = SessionEnd(@),
                                ![c].caught = "CommitError"]
        /\ UNCHANGED committed
  /\ UNCHANGED pool
  /\ UNCHANGED <<apprVars, emails, budgetVars>>

\* The error leaving the catch block
\*   catch (err) { await client.query("ROLLBACK"); throw err; }
\* given the caught error and whether the ROLLBACK was rejected.
CatchThrows(err, rollbackRejected) ==
  IF rollbackRejected THEN "RollbackError" ELSE err

\* await client.query("ROLLBACK"): rejected on a lost connection.
Rollback(c) ==
  /\ call[c].pc = "catch"
  /\ \/ /\ ~call[c].client.broken
        /\ call' = [call EXCEPT ![c].pc = "finally", ![c].endAttempts = @ + 1,
                                ![c].client = SessionEnd(@),
                                ![c].thrown = CatchThrows(call[c].caught, FALSE)]
     \/ call' = [call EXCEPT ![c].pc = "finally", ![c].endAttempts = @ + 1,
                             ![c].client = SessionLost(@),
                             ![c].rollbackFailed = TRUE,
                             ![c].thrown = CatchThrows(call[c].caught, TRUE)]
  /\ UNCHANGED <<pool, committed>>
  /\ UNCHANGED <<apprVars, emails, budgetVars>>

\* client.release(): the pool keeps a healthy connection as idle and
\* discards one whose connection has ended.
PoolRelease(p, cn) ==
  IF cn.broken THEN [p EXCEPT !.open = @ - 1]
  ELSE [p EXCEPT !.idle = @ (+) SetToBag({cn})]

\* client.release() as the last statement of the try body instead of in a
\* finally block.
FinallyReleases_TryOnly(thrown) == thrown = "none"

\* Whether client.release() is reached, given the error (or "none") the
\* call ends with: the finally block runs after the try body and after the
\* catch block alike.  (fn's own count of writes ends with the call.)
FinallyReleases(thrown) == TRUE

Release(c) ==
  /\ call[c].pc = "finally"
  /\ LET rel == FinallyReleases(call[c].thrown) IN
       /\ pool' = IF rel THEN PoolRelease(pool, call[c].client) ELSE pool
       /\ call' = [call EXCEPT ![c].pc = "done",
                               ![c].nWrites = 0,
                               ![c].client = IF rel THEN NoClient ELSE @,
                               ![c].releases = IF rel THEN @ + 1 ELSE @,
                               ![c].releasedAfterEnd = rel /\ call[c].endAttempts > 0,
                               ![c].result = IF call[c].thrown = "none"
                                             THEN "returned" ELSE "threw"]
  /\ UNCHANGED committed
  /\ UNCHANGED <<apprVars, emails, budgetVars>>

NextTenantDb ==
  \/ \E c \in Calls, s \in SlugInputs : Invoke(c, s)
  \/ \E c \in Calls : Connect(c)
  \/ \E c \in Calls : ConnectFail(c)
  \/ \E c \in Calls : Begin(c)
  \/ \E c \in Calls : SetLocal(c)
  \/ \E c \in Calls : FnWrite(c)
  \/ \E c \in Calls : FnReturn(c)
  \/ \E c \in Calls : FnThrow(c)
  \/ \E c \in Calls : Commit(c)
  \/ \E c \in Calls : Rollback(c)
  \/ \E c \in Calls : Release(c)

SpecTenantDb == InitTenantDb /\ [][NextTenantDb]_vars

(***************************************************************************)
(* The budget approval workflow (routes/budgetApproval.ts).                *)
(*                                                                         *)
(* Tenant tables: budget_approvals (one row per issued token),             *)
(* budget_periods, and the units of the period's building.  Timestamps are *)
(* readings of the clock `now`; Null is the SQL NULL of a timestamp        *)
(* column.  A token is a natural number: 0 stands for a missing or blank   *)
(* token, unit u's token is u, UnknownToken was never issued.  Period id 0 *)
(* stands for a path parameter that parses to NaN.                         *)
(*                                                                         *)
(* Every tenantDb call of a handler is one transaction; the model takes    *)
(* each as one step that succeeds, and lets the steps of concurrent        *)
(* requests interleave.                                                    *)
(***************************************************************************)
Null == 0
NullText == <<>>
UnknownToken == 99
NaN == 0

Requests == 1..NumRequests

NoApproval == [id |-> 0, budgetPeriodId |-> 0, unitId |-> 0, token |-> 0,
               approvedAt |-> Null, rejectedAt |-> Null, rejectionReason |-> NullText]

\* budgetApprovals row as inserted by send-for-approval: no response yet.
PendingApproval(rowId, periodId, unit, tok) ==
  [id |-> rowId, budgetPeriodId |-> periodId, unitId |-> unit, token |-> tok,
   approvedAt |-> Null, rejectedAt |-> Null, rejectionReason |-> NullText]

\* budgetPeriods row.
Period(st) == [status |-> st, approvedAt |-> Null, sentForApprovalAt |-> Null,
               buildingId |-> 1, year |-> 2025, openingBalance |-> 0]

\* res.json(...) / res.status(...).json(...): the handler returns and its
\* locals are gone.
Respond(rq, response) ==
  [rq EXCEPT !.pc = "done", !.response = response,
             !.approval = NoApproval, !.reason = NullText]

NoRequest == [pc |-> "idle", kind |-> "none", id |-> NaN, token |-> 0,
              reason |-> NullText, approval |-> NoApproval, unitCount |-> 0,
              approvedUnitCount |-> 0, response |-> "none"]

\* The tenantDb layer is not exercised by the approval specifications.
TenantDbIdle ==
  /\ pool = [idle |-> EmptyBag, open |-> 0]
  /\ committed = {}
  /\ call = <<>>

\* update(budgetPeriods).set({ status: "proposed", sentForApprovalAt: new Date() })
\*   .where(id = id)
UpdatePeriodProposed(pers, id, t) ==
  [i \in DOMAIN pers |->
     IF i = id THEN [pers[i] EXCEPT !.status = "proposed", !.sentForApprovalAt = t]
     ELSE pers[i]]

\* Period 1 was sent for approval at time 1 (one token per unit of its
\* building, nobody has responded); period 2 is a draft without tokens.
SentForApproval(n) ==
  /\ unitCount = n
  /\ approvals = [u \in 1..n |-> PendingApproval(u, 1, u, u)]
  /\ periods = UpdatePeriodProposed(<<Period("draft"), Period("draft")>>, 1, 1)
  /\ now = 2

InitApproval ==
  /\ \E n \in 1..MaxUnits : SentForApproval(n)
  /\ req = [r \in Requests |-> NoRequest]
  /\ TenantDbIdle
  /\ BudgetIdle

(***************************************************************************)
(* Math.ceil((2 / 3) * unitCount) in IEEE-754 double arithmetic.           *)
(* 2/3 rounds to the double 6004799503160661 * 2^-53; the significand is   *)
(* kept as two limbs of 26 bits, TwoThirdsHi * 2^26 + TwoThirdsLo.         *)
(***************************************************************************)
Limb == 67108864

TwoThirdsHi == 89478485

TwoThirdsLo == 22369621

RECURSIVE BitLength(_)
BitLength(x) == IF x = 0 THEN 0 ELSE 1 + BitLength(x \div 2)

\* The exact product (2/3 as a double) * n, in units of 2^-53, as limbs.
ExactProduct(n) ==
  LET lo == TwoThirdsLo * n
  IN  [hi |-> TwoThirdsHi * n + lo \div Limb, lo |-> lo % Limb]

\* The product rounded to a 53-bit significand, ties to even.
RoundToDouble(p) ==
  LET excess == IF BitLength(p.hi) > 27 THEN BitLength(p.hi) - 27 ELSE 0
      unit == 2 ^ excess
      q == p.lo \div unit
      rem == p.lo % unit
      up == \/ 2 * rem > unit
            \/ 2 * rem = unit /\ q % 2 = 1
      lo == (IF up THEN q + 1 ELSE q) * unit
  IN  IF excess = 0 THEN p
      ELSE [hi |-> p.hi + lo \div Limb, lo |-> lo % Limb]

\* Math.floor of the same value: what integer truncation would give.
MathFloor(d) == d.hi \div (2 * Limb)

\* Math.ceil of a double given in units of 2^-53.
MathCeil(d) ==
  d.hi \div (2 * Limb) + (IF d.hi % (2 * Limb) # 0 \/ d.lo # 0 THEN 1 ELSE 0)

\* const requiredApprovalCount = Math.ceil((2 / 3) * unitCount);
RequiredApprovalCount(n) == MathCeil(RoundToDouble(ExactProduct(n)))

\* A strict comparison in place of >= .
QuorumReached_Strict(approvedUnitCount, requiredApprovalCount) ==
  approvedUnitCount > requiredApprovalCount

\* if (approvedUnitCount >= requiredApprovalCount)
QuorumReached(approvedUnitCount, requiredApprovalCount) ==
  approvedUnitCount >= requiredApprovalCount

(***************************************************************************)
(* The queries of the handlers.                                            *)
(***************************************************************************)
\* The lookup by token alone, without the period id of the path.
SelectApproval_TokenOnly(rows, id, token) ==
  LET hits == {i \in DOMAIN rows : rows[i].token = token}
  IN  IF hits = {} THEN NoApproval
      ELSE rows[CHOOSE i \in hits : \A j \in hits : i <= j]

\* select().from(budgetApprovals).where(budgetPeriodId = id and token = token).limit(1)
SelectApproval(rows, id, token) ==
  LET hits == {i \in DOMAIN rows : rows[i].budgetPeriodId = id /\ rows[i].token = token}
  IN  IF hits = {} THEN NoApproval
      ELSE rows[CHOOSE i \in hits : \A j \in hits : i <= j]

\* update(budgetApprovals).set({ approvedAt: new Date() }).where(id = approval.id)
UpdateApproved(rows, rowId, t) ==
  [i \in DOMAIN rows |->
     IF rows[i].id = rowId THEN [rows[i] EXCEPT !.approvedAt = t] ELSE rows[i]]

\* update(budgetApprovals).set({ rejectedAt: new Date(), rejectionReason:
\* reason || null }).where(id = approval.id)
UpdateRejected(rows, rowId, t, reason) ==
  [i \in DOMAIN rows |->
     IF rows[i].id = rowId
     THEN [rows[i] EXCEPT !.rejectedAt = t,
                          !.rejectionReason = IF reason = <<>> THEN NullText ELSE reason]
     ELSE rows[i]]

\* The period's row, then the units of its building: [] when there is no
\* such period; the length of the list is all the handler uses.
SelectUnitsLength(pers, id, n) ==
  IF id \in DOMAIN pers THEN n ELSE 0

\* select count(distinct unitId) from budgetApprovals
\*   where budgetPeriodId = id and approvedAt is not null
CountApprovedUnits(rows, id) ==
  Cardinality({rows[i].unitId : i \in {j \in DOMAIN rows :
                 rows[j].budgetPeriodId = id /\ rows[j].approvedAt # Null}})

\* update(budgetPeriods).set({ status: "approved", approvedAt: new Date() }).where(id = id)
UpdatePeriodApproved(pers, id, t) ==
  [i \in DOMAIN pers |->
     IF i = id THEN [pers[i] EXCEPT !.status = "approved", !.approvedAt = t]
     ELSE pers[i]]

(***************************************************************************)
(* Request parsing.                                                        *)
(***************************************************************************)
Whitespace == {" ", "\t", "\n", "\r"}

RECURSIVE TrimStart(_)
TrimStart(s) ==
  IF s # <<>> /\ Head(s) \in Whitespace THEN TrimStart(Tail(s)) ELSE s

RECURSIVE TrimEnd(_)
TrimEnd(s) ==
  IF s # <<>> /\ s[Len(s)] \in Whitespace THEN TrimEnd(SubSeq(s, 1, Len(s) - 1)) ELSE s

\* String.prototype.trim
Trim(s) == TrimEnd(TrimStart(s))

MaxReasonLength == 2000

\* The reason taken whole, without .slice(0, 2000).
ParseReason_NoSlice(body) ==
  IF body.isString THEN Trim(body.text) ELSE <<>>

\* typeof req.body?.reason === "string" ? req.body.reason.trim().slice(0, 2000) : ""
ParseReason(body) ==
  IF body.isString
  THEN LET t == Trim(body.text) IN SubSeq(t, 1, IF Len(t) < MaxReasonLength THEN Len(t) ELSE MaxReasonLength)
  ELSE <<>>

\* A reason one character longer than the handler keeps, with a blank before it.
LongReason == <<" ">> \o Repeat("x", MaxReasonLength) \o <<"y">>

\* Request bodies: no reason field, a blank reason, a reason with a blank
\* before it and more than 2000 characters after.
ReasonInputs ==
  { [isString |-> FALSE, text |-> <<>>],
    [isString |-> TRUE, text |-> <<" ">>],
    [isString |-> TRUE, text |-> LongReason] }

\* (periodId, token) pairs of the requests: every issued token with its own
\* period, a token with another period, a token never issued, a blank
\* token, and a period id that is not a number.
RequestTargets ==
  ({1} \X (1..unitCount)) \cup {<<2, 1>>, <<1, UnknownToken>>, <<1, 0>>, <<NaN, 1>>}

(***************************************************************************)
(* POST /periods/:id/approve                                               *)
(***************************************************************************)
\* Lines 133-139: parse the id and the token; 400 when either is missing.
ReceiveApprove(r, id, token) ==
  /\ req[r].pc = "idle"
  /\ \A q \in Requests : q < r => req[q].pc # "idle"
  /\ req' = [req EXCEPT ![r] =
       IF id = NaN \/ token = 0
       THEN Respond([@ EXCEPT !.kind = "approve", !.id = id, !.token = token],
                    "400 Invalid id or missing token")
       ELSE [@ EXCEPT !.pc = "select", !.kind = "approve", !.id = id, !.token = token]]
  /\ UNCHANGED <<approvals, periods, unitCount, now>>
  /\ UNCHANGED <<tdbVars, emails, budgetVars>>

\* Lines 143-154: what the approve handler does with the row it found.
\* The variant below lacks the `if (approval.approvedAt)` early return.
ApproveOutcome_NoApprovedCheck(approval) ==
  IF approval = NoApproval THEN "404 Approval link not found or invalid"
  ELSE IF approval.rejectedAt # Null THEN "400 You have already declined this budget"
  ELSE "proceed"

ApproveOutcome(approval) ==
  IF approval = NoApproval THEN "404 Approval link not found or invalid"
  ELSE IF approval.approvedAt # Null THEN "200 Already approved"
  ELSE IF approval.rejectedAt # Null THEN "400 You have already declined this budget"
  ELSE "proceed"

\* Lines 140-154: look the approval up, then answer at once when there is
\* none or when the unit has already responded.
SelectForApprove(r) ==
  /\ req[r].pc = "select"
  /\ req[r].kind = "approve"
  /\ LET approval == SelectApproval(approvals, req[r].id, req[r].token)
         outcome == ApproveOutcome(approval) IN
       req' = [req EXCEPT ![r] =
         IF outcome = "proceed"
         THEN [@ EXCEPT !.pc = "update", !.approval = approval]
         ELSE Respond(@, outcome)]
  /\ UNCHANGED <<approvals, periods, unitCount, now>>
  /\ UNCHANGED <<tdbVars, emails, budgetVars>>

\* Lines 155-157: record the approval.
WriteApproved(r) ==
  /\ req[r].pc = "update"
  /\ req[r].kind = "approve"
  /\ approvals' = UpdateApproved(approvals, req[r].approval.id, now)
  /\ req' = [req EXCEPT ![r].pc = "units"]
  /\ UNCHANGED <<periods, unitCount, now>>
  /\ UNCHANGED <<tdbVars, emails, budgetVars>>

\* Lines 158-162: the units of the period's building.
SelectUnits(r) ==
  /\ req[r].pc = "units"
  /\ req' = [req EXCEPT ![r].pc = "count",
                        ![r].unitCount = SelectUnitsLength(periods, req[r].id, unitCount)]
  /\ UNCHANGED <<approvals, periods, unitCount, now>>
  /\ UNCHANGED <<tdbVars, emails, budgetVars>>

\* Lines 163-172 and 177-184: count the approved units, compare with the
\* required count, and answer when the quorum is not reached.
CountApproved(r) ==
  /\ req[r].pc = "count"
  /\ LET approvedUnitCount == CountApprovedUnits(approvals, req[r].id)
         requiredApprovalCount == RequiredApprovalCount(req[r].unitCount) IN
       req' = [req EXCEPT ![r] =
         IF QuorumReached(approvedUnitCount, requiredApprovalCount)
         THEN [@ EXCEPT !.pc = "promote", !.approvedUnitCount = approvedUnitCount]
         ELSE Respond([@ EXCEPT !.approvedUnitCount = approvedUnitCount],
                      "200 Approval recorded")]
  /\ UNCHANGED <<approvals, periods, unitCount, now>>
  /\ UNCHANGED <<tdbVars, emails, budgetVars>>

\* Lines 173-184: promote the period and answer.
PromotePeriod(r) ==
  /\ req[r].pc = "promote"
  /\ periods' = UpdatePeriodApproved(periods, req[r].id, now)
  /\ req' = [req EXCEPT ![r] = Respond(@, "200 Approval recorded")]
  /\ UNCHANGED <<approvals, unitCount, now>>
  /\ UNCHANGED <<tdbVars, emails, budgetVars>>

(***************************************************************************)
(* POST /periods/:id/reject                                                *)
(***************************************************************************)
\* Lines 189-196.
ReceiveReject(r, id, token, body) ==
  /\ req[r].pc = "idle"
  /\ \A q \in Requests : q < r => req[q].pc # "idle"
  /\ req' = [req EXCEPT ![r] =
       IF id = NaN \/ token = 0
       THEN Respond([@ EXCEPT !.kind = "reject", !.id = id, !.token = token],
                    "400 Invalid id or missing token")
       ELSE [@ EXCEPT !.pc = "select", !.kind = "reject", !.id = id, !.token = token,
                      !.reason = ParseReason(body)]]
  /\ UNCHANGED <<approvals, periods, unitCount, now>>
  /\ UNCHANGED <<tdbVars, emails, budgetVars>>

\* Lines 200-211: what the reject handler does with the row it found.
\* The variant below lacks the `if (approval.approvedAt)` refusal.
RejectOutcome_NoConflictCheck(approval) ==
  IF approval = NoApproval THEN "404 Approval link not found or invalid"
  ELSE IF approval.rejectedAt # Null THEN "200 Decline already recorded"
  ELSE "proceed"

RejectOutcome(approval) ==
  IF approval = NoApproval THEN "404 Approval link not found or invalid"
  ELSE IF approval.approvedAt # Null THEN "400 You have already approved this budget"
  ELSE IF approval.rejectedAt # Null THEN "200 Decline already recorded"
  ELSE "proceed"

\* Lines 197-211.
SelectForReject(r) ==
  /\ req[r].pc = "select"
  /\ req[r].kind = "reject"
  /\ LET approval == SelectApproval(approvals, req[r].id, req[r].token)
         outcome == RejectOutcome(approval) IN
       req' = [req EXCEPT ![r] =
         IF outcome = "proceed"
         THEN [@ EXCEPT !.pc = "update", !.approval = approval]
         ELSE Respond(@, outcome)]
  /\ UNCHANGED <<approvals, periods, unitCount, now>>
  /\ UNCHANGED <<tdbVars, emails, budgetVars>>

\* Lines 212-215.
WriteRejected(r) ==
  /\ req[r].pc = "update"
  /\ req[r].kind = "reject"
  /\ approvals' = UpdateRejected(approvals, req[r].approval.id, now, req[r].reason)
  /\ req' = [req EXCEPT ![r] = Respond(@, "200 Decline recorded")]
  /\ UNCHANGED <<periods, unitCount, now>>
  /\ UNCHANGED <<tdbVars, emails, budgetVars>>

\* The clock advances between any two steps.  (Only the order of the
\* readings stored in the tables matters, so the clock is not advanced
\* past a reading that nothing has stored yet.)
Tick ==
  /\ \/ \E i \in DOMAIN approvals : now \in {approvals[i].approvedAt, approvals[i].rejectedAt}
     \/ \E i \in DOMAIN periods : now \in {periods[i].approvedAt, periods[i].sentForApprovalAt}
  /\ now' = now + 1
  /\ UNCHANGED <<approvals, periods, unitCount, req>>
  /\ UNCHANGED <<tdbVars, emails, budgetVars>>

NextApproval ==
  \/ \E r \in Requests, t \in RequestTargets : ReceiveApprove(r, t[1], t[2])
  \/ \E r \in Requests : SelectForApprove(r)
  \/ \E r \in Requests : WriteApproved(r)
  \/ \E r \in Requests : SelectUnits(r)
  \/ \E r \in Requests : CountApproved(r)
  \/ \E r \in Requests : PromotePeriod(r)
  \/ \E r \in Requests, t \in RequestTargets, b \in ReasonInputs :
       ReceiveReject(r, t[1], t[2], b)
  \/ \E r \in Requests : SelectForReject(r)
  \/ \E r \in Requests : WriteRejected(r)
  \/ Tick

SpecApproval == InitApproval /\ [][NextApproval]_vars

(***************************************************************************)
(* The approve handler run to completion, request after request, on a      *)
(* building of 1..MaxUnitCount units.  `req` holds the last request and    *)
(* its response.  All requests fall within one reading of the clock: the   *)
(* timestamps play no part in the quorum.                                  *)
(***************************************************************************)
\* Lines 132-185 as one function of the tables.
ApproveHandler(rows, pers, n, t, id, token) ==
  LET received == [NoRequest EXCEPT !.kind = "approve", !.id = id, !.token = token]
      approval == SelectApproval(rows, id, token)
      outcome == ApproveOutcome(approval)
      rows1 == UpdateApproved(rows, approval.id, t)
      length == SelectUnitsLength(pers, id, n)
      approvedUnitCount == CountApprovedUnits(rows1, id)
      requiredApprovalCount == RequiredApprovalCount(length)
  IN  IF id = NaN \/ token = 0
      THEN [approvals |-> rows, periods |-> pers,
            request |-> Respond(received, "400 Invalid id or missing token")]
      ELSE IF outcome # "proceed"
      THEN [approvals |-> rows, periods |-> pers, request |-> Respond(received, outcome)]
      ELSE [approvals |-> rows1,
            periods |-> IF QuorumReached(approvedUnitCount, requiredApprovalCount)
                        THEN UpdatePeriodApproved(pers, id, t) ELSE pers,
            request |-> Respond([received EXCEPT !.unitCount = length,
                                                 !.approvedUnitCount = approvedUnitCount],
                                "200 Approval recorded")]

InitQuorum ==
  /\ \E n \in 1..MaxUnitCount : SentForApproval(n)
  /\ req = <<NoRequest>>
  /\ TenantDbIdle
  /\ BudgetIdle

ApproveRequest(id, token) ==
  /\ LET after == ApproveHandler(approvals, periods, unitCount, now, id, token) IN
       /\ approvals' = after.approvals
       /\ periods' = after.periods
       /\ req' = <<after.request>>
  /\ UNCHANGED <<unitCount, now>>
  /\ UNCHANGED <<tdbVars, emails, budgetVars>>

NextQuorum == \E t \in RequestTargets : ApproveRequest(t[1], t[2])

SpecQuorum == InitQuorum /\ [][NextQuorum]_vars

(***************************************************************************)
(* POST /periods/:id/send-for-approval and PATCH /periods/:id              *)
(* (src/routes/dashboard.ts).  A building of 1..MaxUnits units, each unit  *)
(* with one member who has a user row; one budget period, a draft with a   *)
(* contribution row per unit, as POST /periods leaves it.                  *)
(***************************************************************************)
\* NumRequests send-for-approval requests and, after them, one PATCH.
SendRequests == 1..(NumRequests + 1)

Senders == 1..NumRequests

Patcher == NumRequests + 1

\* budget_unit_contributions row; the amount in cents.
Contribution(periodId, unit, cents) ==
  [budgetPeriodId |-> periodId, unitId |-> unit, amount |-> cents]

UnitContributions == "Unit contributions"

\* building_financials row.
Financials(bid, cents) == [buildingId |-> bid, currentBalance |-> cents]

\* budget_lines row.  The table is held as one list of rows per period id,
\* each in the order of insertion: every query on it names one period.
Line(periodId, cat, desc, cents, order) ==
  [budgetPeriodId |-> periodId, category |-> cat, description |-> desc,
   amount |-> cents, sortOrder |-> order]

NoPeriod == [status |-> "none", approvedAt |-> Null, sentForApprovalAt |-> Null,
             buildingId |-> 0, year |-> 0, openingBalance |-> 0]

NoSend == [pc |-> "idle", kind |-> "none", id |-> NaN, period |-> NoPeriod,
           unitsList |-> <<>>, existing |-> 0, response |-> "none"]

RespondSend(rq, response) ==
  [rq EXCEPT !.pc = "done", !.response = response, !.period = NoPeriod,
             !.unitsList = <<>>]

InitSend ==
  /\ \E n \in 1..MaxUnits :
       /\ unitCount = n
       /\ budgetUnitContributions = [u \in 1..n |-> Contribution(1, u, 0)]
  /\ approvals = <<>>
  /\ periods = <<Period("draft")>>
  /\ now = 1
  /\ req = [r \in SendRequests |-> NoSend]
  /\ emails = {}
  /\ budgetLines = << <<Line(1, "recurring", UnitContributions, 0, -1)>> >>
  /\ buildingFinancials = <<Financials(1, 0)>>
  /\ feeTemplates = <<>>
  /\ financialTransactions = <<>>
  /\ TenantDbIdle

\* Path ids of the requests: the period, a period that does not exist, and
\* an id that is not a number.
SendTargets == {1, 2, NaN}

\* z.enum(["draft", "proposed", "approved", "closed"])
statusEnum == {"draft", "proposed", "approved", "closed"}

\* Lines 529-534.
ReceiveSend(r, id) ==
  /\ req[r].pc = "idle"
  /\ \A q \in Senders : q < r => req[q].pc # "idle"
  /\ req' = [req EXCEPT ![r] =
       IF id = NaN
       THEN RespondSend([@ EXCEPT !.kind = "send", !.id = id], "400 Invalid id")
       ELSE [@ EXCEPT !.pc = "period", !.kind = "send", !.id = id]]
  /\ UNCHANGED <<approvals, periods, unitCount, now>>
  /\ UNCHANGED <<tdbVars, emails, budgetVars>>

\* Lines 536-543 with a closed period let through.
SendOutcome_ClosedAllowed(period) ==
  IF period = NoPeriod THEN "404 Not found"
  ELSE IF period.status \notin {"draft", "closed"}
  THEN "400 Budget can only be sent for approval when status is draft"
  ELSE "proceed"

\* Lines 536-543 with the status test left out.
SendOutcome_AnyStatus(period) ==
  IF period = NoPeriod THEN "404 Not found"
  ELSE "proceed"

\* Lines 536-543: what the handler does with the period it read.
SendOutcome(period) ==
  IF period = NoPeriod THEN "404 Not found"
  ELSE IF period.status # "draft"
  THEN "400 Budget can only be sent for approval when status is draft"
  ELSE "proceed"

\* select().from(units).where(buildingId = period.buildingId)
SelectUnitsList(period, n) ==
  IF period.buildingId = 1 THEN [u \in 1..n |-> u] ELSE <<>>

\* Lines 535-554: read the period; 404 without one, 400 unless it is a
\* draft; then read the units of its building (and the contributions, the
\* lines and the building, which no request of this specification writes).
SelectPeriod(r) ==
  /\ req[r].pc = "period"
  /\ LET period == IF req[r].id \in DOMAIN periods THEN periods[req[r].id] ELSE NoPeriod
         outcome == SendOutcome(period) IN
       req' = [req EXCEPT ![r] =
         IF outcome = "proceed"
         THEN [@ EXCEPT !.pc = "existing", !.period = period,
                        !.unitsList = SelectUnitsList(period, unitCount)]
         ELSE RespondSend(@, outcome)]
  /\ UNCHANGED <<approvals, periods, unitCount, now>>
  /\ UNCHANGED <<tdbVars, emails, budgetVars>>

\* select().from(budgetApprovals).where(budgetPeriodId = id)
SelectApprovalsOfPeriod(rows, id) ==
  {i \in DOMAIN rows : rows[i].budgetPeriodId = id}

\* Line 557: if (existing.length > 0) return;
ExistingGuard(existing) == Cardinality(existing) > 0

\* Lines 555-559: the transaction opens and reads the tokens the period
\* already has, as committed at that moment; with any, it commits at once.
SelectExisting(r) ==
  /\ req[r].pc = "existing"
  /\ LET existing == SelectApprovalsOfPeriod(approvals, req[r].id) IN
       req' = [req EXCEPT ![r].pc = IF ExistingGuard(existing) THEN "notify" ELSE "insert",
                          ![r].existing = Cardinality(existing)]
  /\ UNCHANGED <<approvals, periods, unitCount, now>>
  /\ UNCHANGED <<tdbVars, emails, budgetVars>>

\* Lines 560-567: one row per unit of unitsList, ids from the serial, each
\* token 32 random bytes, modelled as a value no other row holds.
InsertApprovals(rows, id, unitsList) ==
  rows \o [k \in 1..Len(unitsList) |->
             PendingApproval(Len(rows) + k, id, unitsList[k], Len(rows) + k)]

\* Lines 560-572: the inserts, the update of the period and the commit.
\* Nothing of the transaction is visible to others before the commit.
InsertAndCommit(r) ==
  /\ req[r].pc = "insert"
  /\ approvals' = InsertApprovals(approvals, req[r].id, req[r].unitsList)
  /\ periods' = UpdatePeriodProposed(periods, req[r].id, now)
  /\ req' = [req EXCEPT ![r].pc = "notify"]
  /\ UNCHANGED <<unitCount, now>>
  /\ UNCHANGED <<tdbVars, emails, budgetVars>>

\* Lines 573-576: the keys of Object.fromEntries over the period's rows,
\* the units that have a token.  (Which token of a unit with several is
\* mailed depends on the order of a query without ORDER BY; the mails are
\* recorded by request and unit.)
TokenByUnit(rows, id) ==
  {rows[i].unitId : i \in SelectApprovalsOfPeriod(rows, id)}

\* Lines 577-608: one mail per unit that has a token, to the unit's member.
SendBudgetApprovalEmails(r, id, unitsList, tokenByUnit) ==
  {[by |-> r, periodId |-> id, unitId |-> unitsList[k]] :
     k \in {j \in DOMAIN unitsList : unitsList[j] \in tokenByUnit}}

\* Lines 573-611: read the tokens back, mail them, write the audit entry
\* and answer.
Notify(r) ==
  /\ req[r].pc = "notify"
  /\ emails' = emails \cup
       SendBudgetApprovalEmails(r, req[r].id, req[r].unitsList,
                                TokenByUnit(approvals, req[r].id))
  /\ req' = [req EXCEPT ![r] = RespondSend(@, "200 Sent for approval")]
  /\ UNCHANGED <<approvals, periods, unitCount, now>>
  /\ UNCHANGED <<tdbVars, budgetVars>>

\* Lines 627-632: update(budgetPeriods).set(update).where(id = id), where
\* update is the body, with approvedAt added when the status is approved.
UpdatePeriodStatus(pers, id, st, t) ==
  [i \in DOMAIN pers |->
     IF i = id
     THEN IF st = "approved" THEN [pers[i] EXCEPT !.status = st, !.approvedAt = t]
          ELSE [pers[i] EXCEPT !.status = st]
     ELSE pers[i]]

\* PATCH /periods/:id with a status in the body, lines 614-641: one
\* transaction.
PatchPeriod(r, id, st) ==
  /\ req[r].pc = "idle"
  /\ periods' = IF id = NaN THEN periods ELSE UpdatePeriodStatus(periods, id, st, now)
  /\ req' = [req EXCEPT ![r] =
       RespondSend([@ EXCEPT !.kind = "patch", !.id = id],
                   IF id = NaN THEN "400 Invalid id"
                   ELSE IF id \in DOMAIN periods THEN "200" ELSE "404 Not found")]
  /\ UNCHANGED <<approvals, unitCount, now>>
  /\ UNCHANGED <<tdbVars, emails, budgetVars>>

NextSend ==
  \/ \E r \in Senders, id \in SendTargets : ReceiveSend(r, id)
  \/ \E r \in Senders : SelectPeriod(r)
  \/ \E r \in Senders : SelectExisting(r)
  \/ \E r \in Senders : InsertAndCommit(r)
  \/ \E r \in Senders : Notify(r)
  \/ \E id \in SendTargets, st \in statusEnum : PatchPeriod(Patcher, id, st)
  \/ Tick

SpecSend == InitSend /\ [][NextSend]_vars

(***************************************************************************)
(* POST /periods and POST /periods/:id/lines (src/routes/dashboard.ts).    *)
(* Building 1 has 0..MaxUnits units, building 2 has none; there is no       *)
(* other building.                                                         *)
(* Amounts are numeric(12,2) columns, held in cents.  The handler's        *)
(* arithmetic is on doubles; on sums of a few amounts of this size the     *)
(* rounding error is far below half a cent, so toFixed(2) returns the      *)
(* exact sum and the numbers are held in cents as well.                    *)
(***************************************************************************)
Creators == 1..NumRequests

Buildings == {1, 2}

\* fee_templates row; buildingId Null for a template of every building.
FeeTemplate(cents, freq, bid) == [amount |-> cents, frequency |-> freq, buildingId |-> bid]

\* Rows a transaction has written and not yet committed.
NoTx == [financials |-> <<>>, period |-> NoPeriod, contributions |-> <<>>, lines |-> <<>>]

NoCreate == [pc |-> "idle", bid |-> 0, year |-> 0, openingBalance |-> 0, id |-> 0,
             buildingUnits |-> <<>>, contributionAmount |-> 0, totalContributions |-> 0,
             tx |-> NoTx, response |-> "none"]

RespondCreate(rq, response) ==
  [NoCreate EXCEPT !.pc = "done", !.bid = rq.bid, !.year = rq.year, !.id = rq.id,
                   !.response = response]

\* The fee templates of the tenant: none; one monthly fee of the building;
\* a monthly fee of the building, a yearly fee of every building and a fee
\* of another building.
TemplateInputs ==
  { <<>>,
    <<FeeTemplate(2000, "monthly", 1)>>,
    <<FeeTemplate(2000, "monthly", 1), FeeTemplate(10050, "yearly", Null),
      FeeTemplate(700, "monthly", 2)>> }

InitCreate ==
  /\ unitCount \in 0..MaxUnits
  /\ feeTemplates \in TemplateInputs
  /\ periods = <<>>
  /\ buildingFinancials = <<>>
  /\ financialTransactions = <<>>
  /\ budgetUnitContributions = <<>>
  /\ budgetLines = <<>>
  /\ approvals = <<>>
  /\ emails = {}
  /\ now = 1
  /\ req = [r \in Creators |-> NoCreate]
  /\ TenantDbIdle

\* Bodies of POST /periods as (buildingId, year): two years of building 1,
\* a building that does not exist, a year the schema refuses.
CreateInputs == {<<1, 2025>>, <<1, 2026>>, <<3, 2026>>, <<1, 1999>>}

\* createPeriodSchema: buildingId a positive integer, year in 2000..2100.
createPeriodSchema(bid, year) == bid > 0 /\ year >= 2000 /\ year <= 2100

\* Lines 433-443.
ReceiveCreate(r, bid, year) ==
  /\ req[r].pc = "idle"
  /\ \A q \in Creators : q < r => req[q].pc # "idle"
  /\ req' = [req EXCEPT ![r] =
       IF createPeriodSchema(bid, year)
       THEN [@ EXCEPT !.pc = "fin", !.bid = bid, !.year = year]
       ELSE RespondCreate([@ EXCEPT !.bid = bid, !.year = year], "400 Invalid input")]
  /\ UNCHANGED <<approvals, periods, unitCount, now>>
  /\ UNCHANGED <<tdbVars, emails, budgetVars>>

\* select().from(buildingFinancials).where(buildingId = bid).limit(1)
SelectFinancials(rows, bid) == {i \in DOMAIN rows : rows[i].buildingId = bid}

\* Lines 445-446: the building's ledger row, as committed; its balance is
\* the opening balance, "0" without one.
SelectFin(r) ==
  /\ req[r].pc = "fin"
  /\ LET fin == SelectFinancials(buildingFinancials, req[r].bid) IN
       req' = [req EXCEPT ![r] =
         IF fin = {}
         THEN [@ EXCEPT !.pc = "insert_fin", !.openingBalance = 0]
         ELSE [@ EXCEPT !.pc = "period",
                        !.openingBalance =
                          buildingFinancials[CHOOSE i \in fin : TRUE].currentBalance]]
  /\ UNCHANGED <<approvals, periods, unitCount, now>>
  /\ UNCHANGED <<tdbVars, emails, budgetVars>>

\* The failed transaction leaves every table as it was.  The variant
\* below keeps what the transaction had written.
RolledBack_Kept(rows, written) == rows \o written

\* tenantDb's catch: ROLLBACK.
RolledBack(rows, written) == rows

\* A statement of the transaction fails (a constraint, a lost connection):
\* tenantDb rolls back and re-raises, and the handler ends without a
\* period.
Abort(r) ==
  /\ budgetLines' = IF req[r].id = 0 THEN budgetLines
                    ELSE [budgetLines EXCEPT ![req[r].id] = RolledBack(@, req[r].tx.lines)]
  /\ budgetUnitContributions' = RolledBack(budgetUnitContributions, req[r].tx.contributions)
  /\ buildingFinancials' = RolledBack(buildingFinancials, req[r].tx.financials)
  /\ req' = [req EXCEPT ![r] = RespondCreate(@, "threw")]
  /\ UNCHANGED <<approvals, periods, unitCount, now, emails, feeTemplates>>
  /\ UNCHANGED <<tdbVars, financialTransactions>>

\* Any statement of line 445-518 or the COMMIT fails.
FailCreate(r) ==
  /\ req[r].pc \in {"fin", "insert_fin", "period", "contrib", "prev", "commit"}
  /\ Abort(r)

\* Line 447-449: insert the zero-balance ledger row.  building_id is the
\* primary key and references buildings: the insert waits while another
\* transaction holds an uncommitted row of the building, and fails when the
\* building does not exist or when a committed row of it exists by now.
InsertFin(r) ==
  /\ req[r].pc = "insert_fin"
  /\ \A q \in Creators \ {r} :
       \A i \in DOMAIN req[q].tx.financials :
         req[q].tx.financials[i].buildingId # req[r].bid
  /\ IF req[r].bid \notin Buildings \/ SelectFinancials(buildingFinancials, req[r].bid) # {}
     THEN Abort(r)
     ELSE /\ req' = [req EXCEPT ![r].pc = "period",
                                ![r].tx.financials = <<Financials(req[r].bid, 0)>>]
          /\ UNCHANGED <<approvals, periods, unitCount, now>>
          /\ UNCHANGED <<tdbVars, emails, budgetVars>>

\* The period inserted with the column default of opening_balance.
NewPeriod_DefaultBalance(bid, year, openingBalance) ==
  [Period("draft") EXCEPT !.buildingId = bid, !.year = year]

\* Line 450-461: the row of the new period.
NewPeriod(bid, year, openingBalance) ==
  [Period("draft") EXCEPT !.buildingId = bid, !.year = year,
                          !.openingBalance = openingBalance]

\* select({ id }).from(units).where(buildingId = bid)
SelectBuildingUnits(bid, n) == IF bid = 1 THEN [u \in 1..n |-> u] ELSE <<>>

\* The templates of the building alone, without those of every building.
SelectTemplates_BuildingOnly(templates, bid) ==
  SelectSeq(templates, LAMBDA t : t.buildingId = bid)

\* select().from(feeTemplates).where(buildingId = bid or buildingId is null)
SelectTemplates(templates, bid) ==
  SelectSeq(templates, LAMBDA t : t.buildingId = bid \/ t.buildingId = Null)

\* Lines 471-475: yearly = amount, monthly = amount * 12.
RECURSIVE YearlyTotalPerUnit(_)
YearlyTotalPerUnit(templatesList) ==
  IF templatesList = <<>> THEN 0
  ELSE (IF Head(templatesList).frequency = "yearly"
        THEN Head(templatesList).amount
        ELSE Head(templatesList).amount * 12)
       + YearlyTotalPerUnit(Tail(templatesList))

\* Lines 450-477: insert the period (the serial hands out the next id at
\* once, the row shows at the commit), write the audit entry, read the
\* units and the fee templates, compute the amounts.
InsertPeriod(r) ==
  /\ req[r].pc = "period"
  /\ periods' = Append(periods, NoPeriod)
  /\ budgetLines' = Append(budgetLines, <<>>)
  /\ LET buildingUnits == SelectBuildingUnits(req[r].bid, unitCount)
         yearlyTotalPerUnit == YearlyTotalPerUnit(SelectTemplates(feeTemplates, req[r].bid))
     IN  req' = [req EXCEPT
           ![r].pc = "contrib",
           ![r].id = Len(periods) + 1,
           ![r].tx.period = NewPeriod(req[r].bid, req[r].year, req[r].openingBalance),
           ![r].buildingUnits = buildingUnits,
           ![r].contributionAmount = yearlyTotalPerUnit,
           ![r].totalContributions = yearlyTotalPerUnit * Len(buildingUnits)]
  /\ UNCHANGED <<approvals, unitCount, now, emails>>
  /\ UNCHANGED <<budgetUnitContributions, buildingFinancials, feeTemplates,
               financialTransactions>>
  /\ UNCHANGED tdbVars

\* Lines 478-484: the loop over buildingUnits, one row per unit.
InsertContributions(id, buildingUnits, contributionAmount) ==
  [k \in DOMAIN buildingUnits |-> Contribution(id, buildingUnits[k], contributionAmount)]

\* Lines 478-493: the contribution rows, then the "Unit contributions"
\* line.  The rows are the transaction's own until the commit, so the
\* inserts are taken in one step.
InsertContributionsAndLine(r) ==
  /\ req[r].pc = "contrib"
  /\ req' = [req EXCEPT
       ![r].pc = "prev",
       ![r].tx.contributions =
         InsertContributions(req[r].id, req[r].buildingUnits, req[r].contributionAmount),
       ![r].tx.lines = <<Line(req[r].id, "recurring", UnitContributions,
                              req[r].totalContributions, -1)>>]
  /\ UNCHANGED <<approvals, periods, unitCount, now>>
  /\ UNCHANGED <<tdbVars, emails, budgetVars>>

\* Lines 496-501: the periods of the building of an earlier year, latest
\* year first, limit 1: any period of the latest such year.
SelectPrevPeriod(pers, bid, year) ==
  LET earlier == {i \in DOMAIN pers :
                    pers[i] # NoPeriod /\ pers[i].buildingId = bid /\ pers[i].year < year}
  IN  {i \in earlier : \A j \in earlier : pers[j].year <= pers[i].year}

\* select().from(budgetLines)
\*   .where(budgetPeriodId = prevPeriod.id and category = "recurring")
SelectRecurring(rows, id) ==
  {i \in DOMAIN rows : rows[i].budgetPeriodId = id /\ rows[i].category = "recurring"}

\* The orders in which a query without ORDER BY may return the rows `ids`.
Orders(ids) ==
  {s \in [1..Cardinality(ids) -> ids] : \A i, j \in DOMAIN s : s[i] = s[j] => i = j}

\* Line 509 left out: every recurring line is copied.
SkipsLine_Never(line) == FALSE

\* Line 509: if (line.description === "Unit contributions") continue;
SkipsLine(line) == line.description = UnitContributions

\* Lines 507-517: the loop over recurringLines from `sortOrder` on: the
\* rows it inserts.
RECURSIVE CopyLines(_, _, _)
CopyLines(id, recurringLines, sortOrder) ==
  IF recurringLines = <<>> THEN <<>>
  ELSE IF SkipsLine(Head(recurringLines))
  THEN CopyLines(id, Tail(recurringLines), sortOrder)
  ELSE <<Line(id, "recurring", Head(recurringLines).description,
              Head(recurringLines).amount, sortOrder)>>
       \o CopyLines(id, Tail(recurringLines), sortOrder + 1)

\* Lines 496-518: the previous period of the building and its recurring
\* lines, as committed, then the copies, which are the transaction's own
\* rows until the commit.
CopyRecurringLines(r) ==
  /\ req[r].pc = "prev"
  /\ LET prev == SelectPrevPeriod(periods, req[r].bid, req[r].year) IN
       IF prev = {}
       THEN req' = [req EXCEPT ![r].pc = "commit"]
       ELSE \E prevPeriod \in prev :
              \E order \in Orders(SelectRecurring(budgetLines[prevPeriod], prevPeriod)) :
                LET recurringLines == [k \in DOMAIN order |-> budgetLines[prevPeriod][order[k]]]
                IN  req' = [req EXCEPT
                      ![r].pc = "commit",
                      ![r].tx.lines = @ \o CopyLines(req[r].id, recurringLines, 0)]
  /\ UNCHANGED <<approvals, periods, unitCount, now>>
  /\ UNCHANGED <<tdbVars, emails, budgetVars>>

\* Lines 519-525: return [r]; tenantDb commits, every row of the
\* transaction shows at once, and the handler answers 201.
CommitCreate(r) ==
  /\ req[r].pc = "commit"
  /\ buildingFinancials' = buildingFinancials \o req[r].tx.financials
  /\ periods' = [periods EXCEPT ![req[r].id] = req[r].tx.period]
  /\ budgetUnitContributions' = budgetUnitContributions \o req[r].tx.contributions
  /\ budgetLines' = [budgetLines EXCEPT ![req[r].id] = @ \o req[r].tx.lines]
  /\ req' = [req EXCEPT ![r] = RespondCreate(@, "201")]
  /\ UNCHANGED <<approvals, unitCount, now, emails, feeTemplates>>
  /\ UNCHANGED <<tdbVars, financialTransactions>>

\* The serial of budget_periods hands out one id per POST /periods.
PeriodIds == 1..NumRequests

\* Bodies of POST /periods/:id/lines as (category, description, amount),
\* in the order in which a period receives them.
LineInputs ==
  << <<"recurring", "Elevator maintenance", 120000>>,
     <<"one_time", "Roof repair", 500000>>,
     <<"recurring", "Cleaning", 60000>>,
     <<"extras", "Garden party", 15000>> >>

\* The lines of a period beside the synthetic one.
OwnLines(rows, id) ==
  {i \in DOMAIN rows[id] : rows[id][i].sortOrder >= 0}

\* POST /periods/:id/lines, lines 736-768, for a period that exists: one
\* insert, sortOrder 0 when the body has none.  A period takes at most
\* MaxLines lines beside the synthetic one.
AddLine(id, cat, desc, cents) ==
  /\ id \in DOMAIN periods
  /\ periods[id] # NoPeriod
  /\ Cardinality(OwnLines(budgetLines, id)) < MaxLines
  /\ budgetLines' = [budgetLines EXCEPT ![id] = Append(@, Line(id, cat, desc, cents, 0))]
  /\ UNCHANGED <<approvals, periods, unitCount, req, now, emails>>
  /\ UNCHANGED <<budgetUnitContributions, buildingFinancials, feeTemplates,
               financialTransactions>>
  /\ UNCHANGED tdbVars

NextCreate ==
  \/ \E r \in Creators, i \in CreateInputs : ReceiveCreate(r, i[1], i[2])
  \/ \E r \in Creators : SelectFin(r)
  \/ \E r \in Creators : InsertFin(r)
  \/ \E r \in Creators : InsertPeriod(r)
  \/ \E r \in Creators : InsertContributionsAndLine(r)
  \/ \E r \in Creators : CopyRecurringLines(r)
  \/ \E r \in Creators : CommitCreate(r)
  \/ \E r \in Creators : FailCreate(r)
  \/ \E id \in PeriodIds, l \in DOMAIN LineInputs :
       /\ id \in DOMAIN budgetLines
       /\ l = Cardinality(OwnLines(budgetLines, id)) + 1
       /\ AddLine(id, LineInputs[l][1], LineInputs[l][2], LineInputs[l][3])

SpecCreate == InitCreate /\ [][NextCreate]_vars

(***************************************************************************)
(* requireTenant (middleware/auth.ts).  A JavaScript value is a record of  *)
(* its type and content, so that `||`, `!` and Array.includes are computed *)
(* on values of every type a header or a JSON body can hold.               *)
(***************************************************************************)
Undefined == [type |-> "undefined", str |-> "", num |-> 0]

Str(s) == [type |-> "string", str |-> s, num |-> 0]

Num(n) == [type |-> "number", str |-> "", num |-> n]

\* ToBoolean: undefined, "" and 0 are falsy.
Truthy(v) ==
  \/ v.type = "string" /\ v.str # ""
  \/ v.type = "number" /\ v.num # 0

\* a || b
OrElse(a, b) == IF Truthy(a) THEN a ELSE b

\* req.user as requireAuth leaves it (lines 90-96), or absent.
NoUser == [present |-> FALSE, tenantSlugs |-> {}]

AuthUser(slugs) == [present |-> TRUE, tenantSlugs |-> slugs]

\* req.body: absent, or a parsed object with or without a tenantSlug.
NoBody == [present |-> FALSE, tenantSlug |-> Undefined]

Body(v) == [present |-> TRUE, tenantSlug |-> v]

\* req.body?.tenantSlug
BodyTenantSlug(body) == IF body.present THEN body.tenantSlug ELSE Undefined

\* req.user.tenantSlugs.includes(tenantSlug): strict equality with one of
\* the strings of the array.
Includes(slugs, v) == v.type = "string" /\ v.str \in slugs

UserInputs ==
  { NoUser, AuthUser({"foo"}), AuthUser({"my-tenant", "other"}) }

HeaderInputs == { Undefined, Str(""), Str("foo"), Str("my-tenant"), Str("other-tenant") }

BodyInputs == { NoBody, Body(Undefined), Body(Str("foo")), Body(Num(7)) }

AuthRequests == 1..NumRequests

NoAuth == [pc |-> "idle", user |-> NoUser, header |-> Undefined, body |-> NoBody,
           tenantSlug |-> Undefined, nextCalls |-> 0, status |-> 0, error |-> "none"]

InitAuth ==
  /\ req = [r \in AuthRequests |-> NoAuth]
  /\ pool = [idle |-> EmptyBag, open |-> 0]
  /\ committed = {}
  /\ call = <<>>
  /\ approvals = <<>>
  /\ periods = <<>>
  /\ unitCount = 0
  /\ now = 0
  /\ BudgetIdle

\* The membership test of line 114 left out.
RequireTenantOutcome_NoMembership(user, header, body) ==
  LET tenantSlug == OrElse(header, BodyTenantSlug(body)) IN
    IF ~user.present
    THEN [status |-> 401, error |-> "Unauthorized", tenantSlug |-> Undefined, next |-> 0]
    ELSE IF ~Truthy(tenantSlug)
    THEN [status |-> 400, error |-> "X-Tenant header required",
          tenantSlug |-> Undefined, next |-> 0]
    ELSE [status |-> 0, error |-> "none", tenantSlug |-> tenantSlug, next |-> 1]

\* Lines 105-119: the response (status 0: none), the value req.tenantSlug
\* is left with and the number of calls of next.
RequireTenantOutcome(user, header, body) ==
  LET tenantSlug == OrElse(header, BodyTenantSlug(body)) IN
    IF ~user.present
    THEN [status |-> 401, error |-> "Unauthorized", tenantSlug |-> Undefined, next |-> 0]
    ELSE IF ~Truthy(tenantSlug)
    THEN [status |-> 400, error |-> "X-Tenant header required",
          tenantSlug |-> Undefined, next |-> 0]
    ELSE IF ~Includes(user.tenantSlugs, tenantSlug)
    THEN [status |-> 403, error |-> "Access denied to this tenant",
          tenantSlug |-> Undefined, next |-> 0]
    ELSE [status |-> 0, error |-> "none", tenantSlug |-> tenantSlug, next |-> 1]

\* requireTenant(req, res, next): the function has no await, it runs in one
\* step on a request whose tenantSlug nothing has set before.
requireTenant(r, user, header, body) ==
  /\ req[r].pc = "idle"
  /\ \A q \in AuthRequests : q < r => req[q].pc # "idle"
  /\ LET o == RequireTenantOutcome(user, header, body) IN
       req' = [req EXCEPT ![r] =
                 [pc |-> "done", user |-> user, header |-> header, body |-> body,
                  tenantSlug |-> o.tenantSlug, nextCalls |-> o.next,
                  status |-> o.status, error |-> o.error]]
  /\ UNCHANGED <<pool, committed, call, approvals, periods, unitCount, now>>
  /\ UNCHANGED <<emails, budgetVars>>

NextAuth ==
  \E r \in AuthRequests, user \in UserInputs, header \in HeaderInputs,
     body \in BodyInputs : requireTenant(r, user, header, body)

SpecAuth == InitAuth /\ [][NextAuth]_vars

(***************************************************************************)
(* createTenant (services/tenantService.ts) and runTenantMigrations        *)
(* (db/run-tenant-migrations.ts), concurrent calls over the shared pool.   *)
(* The database is the set of its committed facts and the tenants id       *)
(* sequence; a connection of the pool is known by its number, so that a    *)
(* query issued through a client object reaches the session of that        *)
(* connection whoever has it checked out.                                  *)
(***************************************************************************)
ConnIds == 1..PoolMax

\* The users of public.users.
Users == {1}

TenantFact(id, slug, c) == [kind |-> "tenant", id |-> id, name |-> slug, n |-> 0, by |-> c]

SchemaFact(name, c) == [kind |-> "schema", id |-> 0, name |-> name, n |-> 0, by |-> c]

\* The n-th statement of the migration batch, applied in schema `name`.
MigrationFact(name, n, c) == [kind |-> "migration", id |-> 0, name |-> name, n |-> n, by |-> c]

\* A tenant_users row: tenant id, user id (role org_owner).
OwnerFact(id, user, c) == [kind |-> "tenant_user", id |-> id, name |-> <<>>, n |-> user, by |-> c]

SlugA == <<"a">>
SlugB == <<"b">>
SlugC == <<"c">>

\* Tenant "a" exists, provisioned in full, before the calls start.
ExistingTenant ==
  { TenantFact(1, SlugA, 0), SchemaFact(TenantPrefix \o SlugA, 0),
    OwnerFact(1, 1, 0) }
    \cup { MigrationFact(TenantPrefix \o SlugA, n, 0) : n \in 1..MaxStatements }

NoCreateTenant ==
  [pc |-> "idle", slug |-> <<>>, owner |-> 0, schemaName |-> <<>>,
   client |-> 0, released |-> FALSE, releaseCalls |-> 0, tenantId |-> 0,
   mclient |-> 0, stmts |-> 0, failedAt |-> "none", caught |-> "none",
   thrown |-> "none", result |-> "none"]

InitTenant ==
  /\ pool = [idle |-> ConnIds, sess |-> [i \in ConnIds |-> FreshConn]]
  /\ committed = [rows |-> ExistingTenant, tenants_id_seq |-> 1]
  /\ call = [c \in Calls |-> NoCreateTenant]
  /\ ApprovalIdle
  /\ BudgetIdle

\* A statement that writes `fact` on a session: inside a transaction the
\* write is pending until COMMIT, outside it is committed at once.
ExecWrite(p, db, i, fact) ==
  IF p.sess[i].txn = "open"
  THEN [pool |-> [p EXCEPT !.sess[i].pending = @ \cup {fact}], db |-> db]
  ELSE [pool |-> p, db |-> [db EXCEPT !.rows = @ \cup {fact}]]

\* COMMIT on session i: the pending writes become visible (with no
\* transaction in progress the statement only raises a warning).
ExecCommit(p, db, i) ==
  [pool |-> [p EXCEPT !.sess[i] = SessionEnd(@)],
   db |-> [db EXCEPT !.rows = @ \cup p.sess[i].pending]]

\* ROLLBACK on session i, whoever holds the connection.
ExecRollback(p, i) == [p EXCEPT !.sess[i] = SessionEnd(@)]

\* Rows of kind k another session holds uncommitted.
PendingElsewhere(p, i, k) ==
  UNION { {f \in p.sess[j].pending : f.kind = k} : j \in ConnIds \ {i} }

TenantRows(db) == {f \in db.rows : f.kind = "tenant"}

\* const schemaName = tenantSchemaName(slug); const client = await
\* pool.connect(); await client.query("BEGIN");
CreateTenantBegin(c, slug, owner) ==
  /\ call[c].pc = "idle"
  /\ \A d \in Calls : d < c => call[d].pc # "idle"
  /\ tenantSchemaName(slug).ok
  /\ \E i \in pool.idle :
       /\ pool' = [pool EXCEPT !.idle = @ \ {i}, !.sess[i] = SessionBegin(@)]
       /\ call' = [call EXCEPT ![c] =
                     [@ EXCEPT !.pc = "insert", !.slug = slug, !.owner = owner,
                               !.schemaName = tenantSchemaName(slug).value,
                               !.client = i]]
  /\ UNCHANGED committed
  /\ UNCHANGED <<apprVars, emails, budgetVars>>

\* The unique constraint on tenants.slug without effect.
SlugTaken_Never(db, slug) == FALSE

\* tenants.slug is unique (schema/public.ts).
SlugTaken(db, slug) == \E f \in TenantRows(db) : f.name = slug

\* Lines 14-19: INSERT INTO public.tenants ... RETURNING.  The insert waits
\* while another transaction holds an uncommitted row of the same slug; it
\* fails with the unique violation if the slug is committed.  The id is
\* drawn from the sequence whether or not the transaction commits.
InsertTenant(c) ==
  LET i == call[c].client IN
  /\ call[c].pc = "insert"
  /\ ~\E f \in PendingElsewhere(pool, i, "tenant") : f.name = call[c].slug
  /\ IF SlugTaken(committed, call[c].slug)
     THEN /\ call' = [call EXCEPT ![c].pc = "catch", ![c].failedAt = "insert",
                                  ![c].caught = "UniqueViolation"]
          /\ UNCHANGED <<pool, committed>>
     ELSE LET id == committed.tenants_id_seq + 1
              w == ExecWrite(pool, [committed EXCEPT !.tenants_id_seq = id], i,
                             TenantFact(id, call[c].slug, c))
          IN /\ pool' = w.pool
             /\ committed' = w.db
             /\ call' = [call EXCEPT ![c].pc = "schema", ![c].tenantId = id]
  /\ UNCHANGED <<apprVars, emails, budgetVars>>

\* Line 20: CREATE SCHEMA IF NOT EXISTS "<schemaName>": nothing is created
\* if the schema exists; the statement can be rejected by the server.
CreateSchema(c) ==
  LET i == call[c].client
      name == call[c].schemaName
  IN
  /\ call[c].pc = "schema"
  /\ \/ LET exists == \E f \in committed.rows \cup pool.sess[i].pending :
                        f.kind = "schema" /\ f.name = name
            w == IF exists THEN [pool |-> pool, db |-> committed]
                 ELSE ExecWrite(pool, committed, i, SchemaFact(name, c))
        IN /\ ~\E f \in PendingElsewhere(pool, i, "schema") : f.name = name
           /\ pool' = w.pool
           /\ committed' = w.db
           /\ call' = [call EXCEPT ![c].pc = "commit"]
     \/ /\ call' = [call EXCEPT ![c].pc = "catch", ![c].failedAt = "schema",
                                ![c].caught = "SchemaError"]
        /\ UNCHANGED <<pool, committed>>
  /\ UNCHANGED <<apprVars, emails, budgetVars>>

\* Lines 21-22: await client.query("COMMIT"); client.release();
CommitStep1(c) ==
  LET i == call[c].client
      w == ExecCommit(pool, committed, i)
  IN
  /\ call[c].pc = "commit"
  /\ pool' = [w.pool EXCEPT !.idle = @ \cup {i}]
  /\ committed' = w.db
  /\ call' = [call EXCEPT ![c].pc = "migrate", ![c].released = TRUE,
                          ![c].releaseCalls = @ + 1]
  /\ UNCHANGED <<apprVars, emails, budgetVars>>

DoubleRelease == "Release called on client which has already been released to the pool."

\* Lines 29-33: catch (err) { await client.query("ROLLBACK").catch(() => {});
\* client.release(); throw err; }  The block does not test whether line 22
\* has released the client: the ROLLBACK is sent on it either way, and the
\* second call of release throws in place of `throw err`.
CatchOutcome(err, released) ==
  [rollback |-> TRUE, release |-> TRUE,
   thrown |-> IF released THEN DoubleRelease ELSE err]

\* The catch block run on call c's record and the pool.
Caught(p, cl, err) ==
  LET o == CatchOutcome(err, cl.released)
      p1 == IF o.rollback THEN ExecRollback(p, cl.client) ELSE p
      p2 == IF o.release /\ ~cl.released
            THEN [p1 EXCEPT !.idle = @ \cup {cl.client}] ELSE p1
  IN [pool |-> p2,
      call |-> [cl EXCEPT !.pc = "done", !.caught = err, !.thrown = o.thrown,
                          !.result = "threw", !.released = TRUE,
                          !.releaseCalls = IF o.release THEN @ + 1 ELSE @]]

\* A failure of step 1 reaches the catch block.
CatchStep1(c) ==
  /\ call[c].pc = "catch"
  /\ LET k == Caught(pool, call[c], call[c].caught) IN
       /\ pool' = k.pool
       /\ call' = [call EXCEPT ![c] = k.call]
  /\ UNCHANGED committed
  /\ UNCHANGED <<apprVars, emails, budgetVars>>

\* run-tenant-migrations.ts lines 15-23: pool.connect(), BEGIN, SET LOCAL
\* search_path.
RunTenantMigrations(c) ==
  /\ call[c].pc = "migrate"
  /\ \E i \in pool.idle :
       /\ pool' = [pool EXCEPT !.idle = @ \ {i},
                     !.sess[i] = SessionSetLocal(SessionBegin(@), call[c].schemaName)]
       /\ call' = [call EXCEPT ![c].pc = "stmt", ![c].mclient = i]
  /\ UNCHANGED committed
  /\ UNCHANGED <<apprVars, emails, budgetVars>>

\* Lines 36-41 of run-tenant-migrations.ts (ROLLBACK, release, rethrow)
\* followed by createTenant's own catch block.
MigrationFailed(p, cl) ==
  LET p1 == [ExecRollback(p, cl.mclient) EXCEPT !.idle = @ \cup {cl.mclient}]
  IN Caught(p1, [cl EXCEPT !.failedAt = "migrate", !.mclient = 0], "MigrationError")

\* Lines 24-34: the next statement of the batch runs on the migration
\* client, unqualified names resolving against the head of its search path,
\* or is rejected.
MigrationStmt(c) ==
  LET i == call[c].mclient
      n == call[c].stmts + 1
  IN
  /\ call[c].pc = "stmt"
  /\ n <= MaxStatements
  /\ \/ LET w == ExecWrite(pool, committed, i,
                           MigrationFact(Head(pool.sess[i].path), n, c))
        IN /\ pool' = w.pool
           /\ committed' = w.db
           /\ call' = [call EXCEPT ![c].stmts = n]
     \/ LET k == MigrationFailed(pool, call[c]) IN
          /\ pool' = k.pool
          /\ call' = [call EXCEPT ![c] = k.call]
          /\ UNCHANGED committed
  /\ UNCHANGED <<apprVars, emails, budgetVars>>

\* Line 35 and the finally block: COMMIT, release.
MigrationCommit(c) ==
  LET i == call[c].mclient
      w == ExecCommit(pool, committed, i)
  IN
  /\ call[c].pc = "stmt"
  /\ call[c].stmts = MaxStatements
  /\ pool' = [w.pool EXCEPT !.idle = @ \cup {i}]
  /\ committed' = w.db
  /\ call' = [call EXCEPT ![c].pc = "owner", ![c].mclient = 0]
  /\ UNCHANGED <<apprVars, emails, budgetVars>>

\* The foreign keys and the unique index of public.tenant_users.
OwnerInsertRejected(db, id, user) ==
  \/ user \notin Users
  \/ ~\E f \in TenantRows(db) : f.id = id
  \/ \E f \in db.rows : f.kind = "tenant_user" /\ f.id = id /\ f.n = user

\* Lines 24-28: pool.query(INSERT INTO public.tenant_users ...) on any idle
\* connection, in a transaction of its own; then return.
InsertOwner(c) ==
  /\ call[c].pc = "owner"
  /\ pool.idle # {}
  /\ IF OwnerInsertRejected(committed, call[c].tenantId, call[c].owner)
     THEN LET k == Caught(pool, [call[c] EXCEPT !.failedAt = "owner"], "OwnerError") IN
            /\ pool' = k.pool
            /\ call' = [call EXCEPT ![c] = k.call]
            /\ UNCHANGED committed
     ELSE /\ committed' = [committed EXCEPT !.rows =
                             @ \cup {OwnerFact(call[c].tenantId, call[c].owner, c)}]
          /\ call' = [call EXCEPT ![c].pc = "done", ![c].result = "returned"]
          /\ UNCHANGED pool
  /\ UNCHANGED <<apprVars, emails, budgetVars>>

\* Slug and owner of a call: the existing slug, a new slug with an owner
\* that is no user, a new slug with a valid owner.
TenantInputs == { <<SlugA, 1>>, <<SlugB, 9>>, <<SlugC, 1>> }

NextTenant ==
  \/ \E c \in Calls, in \in TenantInputs : CreateTenantBegin(c, in[1], in[2])
  \/ \E c \in Calls : InsertTenant(c)
  \/ \E c \in Calls : CreateSchema(c)
  \/ \E c \in Calls : CommitStep1(c)
  \/ \E c \in Calls : CatchStep1(c)
  \/ \E c \in Calls : RunTenantMigrations(c)
  \/ \E c \in Calls : MigrationStmt(c)
  \/ \E c \in Calls : MigrationCommit(c)
  \/ \E c \in Calls : InsertOwner(c)

SpecTenant == InitTenant /\ [][NextTenant]_vars

(***************************************************************************)
(* The building ledger: POST /buildings/:id/transactions                   *)
(* (routes/buildings.ts) running together with POST /periods, PATCH        *)
(* /periods/:id and DELETE /periods/:id (routes/dashboard.ts).  Request 1  *)
(* creates a period, the other requests record transactions.  Amounts of   *)
(* a request body are in thousandths, amounts of numeric(12,2) columns in  *)
(* cents.                                                                  *)
(***************************************************************************)
PeriodCreator == 1
Recorders == 2..(NumRequests + 1)
LedgerRequests == 1..(NumRequests + 1)

\* financial_transactions row.
Transaction(bid, periodId, cents) ==
  [buildingId |-> bid, budgetPeriodId |-> periodId, amount |-> cents]

NoRecord == [pc |-> "idle", bid |-> 0, budgetPeriodId |-> Null, amount |-> 0,
             current |-> 0, fin |-> FALSE, tx |-> NoTx, response |-> "none"]

RespondRecord(rq, response) ==
  [NoRecord EXCEPT !.pc = "done", !.bid = rq.bid, !.budgetPeriodId = rq.budgetPeriodId,
                   !.amount = rq.amount, !.response = response]

InitLedger ==
  /\ unitCount = 1
  /\ feeTemplates = <<FeeTemplate(2000, "monthly", 1)>>
  /\ periods = <<>>
  /\ buildingFinancials = <<>>
  /\ financialTransactions = <<>>
  /\ budgetUnitContributions = <<>>
  /\ budgetLines = <<>>
  /\ approvals = <<>>
  /\ emails = {}
  /\ now = 1
  /\ req = [r \in LedgerRequests |-> IF r = PeriodCreator THEN NoCreate ELSE NoRecord]
  /\ TenantDbIdle

\* Number.prototype.toFixed(2) of a value given in thousandths, in cents:
\* the nearest hundredth.
ToFixed2(thousandths) == (thousandths + 5) \div 10

\* parseFloat(String(fin.currentBalance)), in thousandths.
ParseBalance(cents) == cents * 10

\* createTransactionSchema: amount a positive number (unitId and the
\* optional fields are well-formed in every body considered).
createTransactionSchema(amount) == amount > 0

\* Bodies of POST /buildings/:id/transactions as (building id of the path,
\* budgetPeriodId or Null, amount): a plain payment, a payment for period
\* 1 with a fraction of a cent, a building that does not exist, an amount
\* the schema refuses.
RecordInputs ==
  { <<1, Null, 100000>>, <<1, 1, 25506>>, <<3, Null, 100000>>, <<1, Null, 0>> }

\* Lines 230-250 without the period test, and lines 242-250 when the body
\* has no budgetPeriodId.
ReceiveRecord(r, bid, periodId, amount) ==
  /\ req[r].pc = "idle"
  /\ \A q \in Recorders : q < r => req[q].pc # "idle"
  /\ req' = [req EXCEPT ![r] =
       IF ~createTransactionSchema(amount)
       THEN RespondRecord([@ EXCEPT !.bid = bid, !.budgetPeriodId = periodId,
                                    !.amount = amount], "400 Invalid input")
       ELSE [@ EXCEPT !.pc = IF periodId # Null THEN "check" ELSE "insert",
                      !.bid = bid, !.budgetPeriodId = periodId, !.amount = amount]]
  /\ UNCHANGED <<approvals, periods, unitCount, now>>
  /\ UNCHANGED <<tdbVars, emails, budgetVars>>

\* Lines 243-246: the period's status as committed; absent or not approved
\* is refused.
PeriodApproved(pers, id) ==
  /\ id \in DOMAIN pers
  /\ pers[id] # NoPeriod
  /\ pers[id].status = "approved"

\* Lines 242-250: a transaction of its own that reads the period.
CheckPeriod(r) ==
  /\ req[r].pc = "check"
  /\ req' = [req EXCEPT ![r] =
       IF PeriodApproved(periods, req[r].budgetPeriodId)
       THEN [@ EXCEPT !.pc = "insert"]
       ELSE RespondRecord(@, "400 Budget must be approved before recording payments.")]
  /\ UNCHANGED <<approvals, periods, unitCount, now>>
  /\ UNCHANGED <<tdbVars, emails, budgetVars>>

\* The foreign keys of financial_transactions: the building, and the period
\* when one is named.
LedgerInsertRejected(pers, bid, periodId) ==
  \/ bid \notin Buildings
  \/ /\ periodId # Null
     /\ ~(periodId \in DOMAIN pers /\ pers[periodId] # NoPeriod)

\* Lines 251-265 of the second transaction: the ledger row is inserted (it
\* is the transaction's own until the commit), the building's balance is
\* read as committed and the new balance computed from it.
InsertTransaction(r) ==
  /\ req[r].pc = "insert"
  /\ IF LedgerInsertRejected(periods, req[r].bid, req[r].budgetPeriodId)
     THEN req' = [req EXCEPT ![r] = RespondRecord(@, "threw")]
     ELSE LET fin == SelectFinancials(buildingFinancials, req[r].bid) IN
            req' = [req EXCEPT
              ![r].pc = "balance",
              ![r].fin = fin # {},
              ![r].current = IF fin = {} THEN 0
                             ELSE ParseBalance(buildingFinancials[CHOOSE i \in fin : TRUE].currentBalance)]
  /\ UNCHANGED <<approvals, periods, unitCount, now>>
  /\ UNCHANGED <<tdbVars, emails, budgetVars>>

\* UPDATE building_financials SET currentBalance = :newBalance WHERE
\* buildingId = :bid
UpdateBalance(rows, bid, cents) ==
  [i \in DOMAIN rows |->
     IF rows[i].buildingId = bid THEN [rows[i] EXCEPT !.currentBalance = cents]
     ELSE rows[i]]

\* Lines 265-272 and tenantDb's COMMIT: the balance row is updated to the
\* computed value, or inserted when line 263 found none; the ledger row and
\* the balance show together.  The insert waits for an uncommitted balance
\* row of another transaction and fails on a committed one, and the whole
\* transaction is rolled back.
WriteBalance(r) ==
  LET newBalance == ToFixed2(req[r].current + req[r].amount)
      row == Transaction(req[r].bid, req[r].budgetPeriodId, ToFixed2(req[r].amount))
  IN
  /\ req[r].pc = "balance"
  /\ \/ req[r].fin
     \/ \A i \in DOMAIN req[PeriodCreator].tx.financials :
          req[PeriodCreator].tx.financials[i].buildingId # req[r].bid
  /\ IF ~req[r].fin /\ SelectFinancials(buildingFinancials, req[r].bid) # {}
     THEN /\ req' = [req EXCEPT ![r] = RespondRecord(@, "threw")]
          /\ UNCHANGED <<buildingFinancials, financialTransactions>>
     ELSE /\ financialTransactions' = Append(financialTransactions, row)
          /\ buildingFinancials' =
               IF req[r].fin
               THEN UpdateBalance(buildingFinancials, req[r].bid, newBalance)
               ELSE Append(buildingFinancials, Financials(req[r].bid, newBalance))
          /\ req' = [req EXCEPT ![r] = RespondRecord(@, "201")]
  /\ UNCHANGED <<approvals, periods, unitCount, now, emails>>
  /\ UNCHANGED <<budgetLines, budgetUnitContributions, feeTemplates>>
  /\ UNCHANGED tdbVars

\* A statement of the second transaction fails: tenantDb rolls back.
FailRecord(r) ==
  /\ req[r].pc \in {"insert", "balance"}
  /\ req' = [req EXCEPT ![r] = RespondRecord(@, "threw")]
  /\ UNCHANGED <<approvals, periods, unitCount, now>>
  /\ UNCHANGED <<tdbVars, emails, budgetVars>>

\* PATCH /periods/:id with a status, lines 614-641, on a period that
\* exists: one UPDATE in one transaction.
PatchStatus(id, st) ==
  /\ id \in DOMAIN periods
  /\ periods[id] # NoPeriod
  /\ periods[id].status # st
  /\ periods' = UpdatePeriodStatus(periods, id, st, now)
  /\ UNCHANGED <<approvals, unitCount, req, now>>
  /\ UNCHANGED <<tdbVars, emails, budgetVars>>

\* Line 653: UPDATE financial_transactions SET budgetPeriodId = NULL WHERE
\* budgetPeriodId = :id
UnlinkTransactions(rows, id) ==
  [i \in DOMAIN rows |->
     IF rows[i].budgetPeriodId = id THEN [rows[i] EXCEPT !.budgetPeriodId = Null]
     ELSE rows[i]]

\* DELETE /periods/:id, lines 643-657, on a period that exists: the ledger
\* rows are unlinked and the period deleted, its lines, contributions and
\* approvals with it (ON DELETE CASCADE), in one transaction.
DeletePeriod(id) ==
  /\ id \in DOMAIN periods
  /\ periods[id] # NoPeriod
  /\ financialTransactions' = UnlinkTransactions(financialTransactions, id)
  /\ periods' = [periods EXCEPT ![id] = NoPeriod]
  /\ budgetLines' = [budgetLines EXCEPT ![id] = <<>>]
  /\ budgetUnitContributions' =
       SelectSeq(budgetUnitContributions, LAMBDA c : c.budgetPeriodId # id)
  /\ approvals' = SelectSeq(approvals, LAMBDA a : a.budgetPeriodId # id)
  /\ UNCHANGED <<unitCount, req, now, emails, buildingFinancials, feeTemplates>>
  /\ UNCHANGED tdbVars

NextLedger ==
  \/ ReceiveCreate(PeriodCreator, 1, 2025)
  \/ SelectFin(PeriodCreator)
  \/ InsertFin(PeriodCreator)
  \/ InsertPeriod(PeriodCreator)
  \/ InsertContributionsAndLine(PeriodCreator)
  \/ CopyRecurringLines(PeriodCreator)
  \/ CommitCreate(PeriodCreator)
  \/ FailCreate(PeriodCreator)
  \/ \E r \in Recorders, in \in RecordInputs : ReceiveRecord(r, in[1], in[2], in[3])
  \/ \E r \in Recorders : CheckPeriod(r)
  \/ \E r \in Recorders : InsertTransaction(r)
  \/ \E r \in Recorders : WriteBalance(r)
  \/ \E r \in Recorders : FailRecord(r)
  \/ \E id \in PeriodIds, st \in statusEnum : PatchStatus(id, st)
  \/ \E id \in PeriodIds : DeletePeriod(id)

SpecLedger == InitLedger /\ [][NextLedger]_vars

(***************************************************************************)
(* The life of a budget period's status: POST /periods/:id/send-for-       *)
(* approval and PATCH /periods/:id (routes/dashboard.ts) running together  *)
(* with POST /periods/:id/approve.  Request 1 sends the draft of InitSend  *)
(* for approval, the other requests are approvals by token, and the        *)
(* manager may patch the status at any moment.  The clock stands still:    *)
(* the status does not depend on the timestamps.                           *)
(***************************************************************************)
Sender == 1
Approvers == 2..(NumRequests + 1)
LifecycleRequests == 1..(NumRequests + 1)

InitLifecycle ==
  /\ \E n \in 1..MaxUnits :
       /\ unitCount = n
       /\ budgetUnitContributions = [u \in 1..n |-> Contribution(1, u, 0)]
  /\ approvals = <<>>
  /\ periods = <<Period("draft")>>
  /\ now = 1
  /\ req = [r \in LifecycleRequests |-> IF r = Sender THEN NoSend ELSE NoRequest]
  /\ emails = {}
  /\ budgetLines = << <<Line(1, "recurring", UnitContributions, 0, -1)>> >>
  /\ buildingFinancials = <<Financials(1, 0)>>
  /\ feeTemplates = <<>>
  /\ financialTransactions = <<>>
  /\ TenantDbIdle

NextLifecycle ==
  \/ \E id \in SendTargets : ReceiveSend(Sender, id)
  \/ SelectPeriod(Sender)
  \/ SelectExisting(Sender)
  \/ InsertAndCommit(Sender)
  \/ Notify(Sender)
  \/ \E r \in Approvers, t \in RequestTargets : ReceiveApprove(r, t[1], t[2])
  \/ \E r \in Approvers : SelectForApprove(r)
  \/ \E r \in Approvers : WriteApproved(r)
  \/ \E r \in Approvers : SelectUnits(r)
  \/ \E r \in Approvers : CountApproved(r)
  \/ \E r \in Approvers : PromotePeriod(r)
  \/ \E id \in PeriodIds, st \in statusEnum : PatchStatus(id, st)

SpecLifecycle == InitLifecycle /\ [][NextLifecycle]_vars

(***************************************************************************)
(* The notifications of POST /periods/:id/send-for-approval                *)
(* (dashboard.ts:548-608) for a building that received units after its     *)
(* period was created: POST /periods wrote a contribution row for each     *)
(* unit the building had then, and the units added since have none.  The   *)
(* period has its "Unit contributions" line and one more line.  Each unit  *)
(* has one member who has a user row.                                      *)
(***************************************************************************)
\* The yearly fee per unit the period was created with, and the amount of
\* the period's other line, in cents.
UnitFee == 24000

OtherLine == 10000

\* The subsequence of 1..n of the units in S.
UnitsIn(n, S) == SelectSeq([u \in 1..n |-> u], LAMBDA u : u \in S)

InitNotify ==
  /\ \E n \in 1..MaxUnits, S \in SUBSET (1..MaxUnits) :
       /\ S \subseteq 1..n
       /\ unitCount = n
       /\ budgetUnitContributions =
            [k \in 1..Cardinality(S) |-> Contribution(1, UnitsIn(n, S)[k], UnitFee)]
       /\ budgetLines =
            << <<Line(1, "recurring", UnitContributions, UnitFee * Cardinality(S), -1),
                 Line(1, "one_time", "Roof repair", OtherLine, 0)>> >>
  /\ approvals = <<>>
  /\ periods = <<Period("draft")>>
  /\ now = 1
  /\ req = [r \in Senders |-> NoSend]
  /\ emails = {}
  /\ buildingFinancials = <<Financials(1, 0)>>
  /\ feeTemplates = <<>>
  /\ financialTransactions = <<>>
  /\ TenantDbIdle

\* The string Number.prototype.toFixed(2) returns, held by the number of
\* cents it spells.
FixedString(cents) == [type |-> "string", str |-> "toFixed(2)", num |-> cents]

\* A property access that throws TypeError: the value has no such method.
TypeError == [type |-> "TypeError", str |-> "toFixed is not a function", num |-> 0]

\* Line 551: contributionByUnit[u.id], the amount of the unit's row as a
\* number, undefined without a row.
ContributionByUnit(rows, id, u) ==
  LET own == {i \in DOMAIN rows : rows[i].budgetPeriodId = id /\ rows[i].unitId = u} IN
    IF own = {} THEN Undefined ELSE Num(rows[CHOOSE i \in own : TRUE].amount)

\* Line 555: lines.reduce((sum, l) => sum + parseFloat(String(l.amount)), 0)
RECURSIVE TotalOfLines(_)
TotalOfLines(lines) ==
  IF lines = <<>> THEN 0 ELSE Head(lines).amount + TotalOfLines(Tail(lines))

\* Line 556: unitsList.length ? (total / unitsList.length).toFixed(2) : "0",
\* a string in both branches.  (toFixed rounds to the nearest cent; the
\* amounts considered have no quotient halfway between two cents.)
SharePerUnitDefault(total, length) ==
  IF length # 0 THEN FixedString((2 * total + length) \div (2 * length)) ELSE Str("0")

\* a ?? b
Coalesce(a, b) == IF a.type = "undefined" THEN b ELSE a

\* v.toFixed(2): the method of a number; a string has none.
ToFixed(v) == IF v.type = "number" THEN FixedString(v.num) ELSE TypeError

\* Line 580: (contributionByUnit[u.id] ?? sharePerUnitDefault).toFixed(2)
SharePerUnit(rows, lines, id, u, length) ==
  ToFixed(Coalesce(ContributionByUnit(rows, id, u),
                   SharePerUnitDefault(TotalOfLines(lines), length)))

\* Lines 577-580: the position in unitsList of the first unit with a token
\* at which line 580 throws; past the end of the list when none does.
FirstThrown(rows, lines, id, unitsList, tokenByUnit) ==
  LET thrown == {k \in DOMAIN unitsList :
                   /\ unitsList[k] \in tokenByUnit
                   /\ SharePerUnit(rows, lines, id, unitsList[k], Len(unitsList)) = TypeError}
  IN IF thrown = {} THEN Len(unitsList) + 1
     ELSE CHOOSE k \in thrown : \A j \in thrown : k <= j

\* Lines 577-608: the loop over unitsList, one mail to the member of each
\* unit that has a token, until the end of the list or the first exception.
SendShareEmails(r, rows, lines, id, unitsList, tokenByUnit) ==
  {[by |-> r, periodId |-> id, unitId |-> unitsList[k],
    sharePerUnit |-> SharePerUnit(rows, lines, id, unitsList[k], Len(unitsList))] :
     k \in {j \in DOMAIN unitsList :
              /\ unitsList[j] \in tokenByUnit
              /\ j < FirstThrown(rows, lines, id, unitsList, tokenByUnit)}}

\* Lines 573-611: read the tokens back and run the loop; an exception of
\* the loop leaves the handler, which answers nothing more.  (The
\* contribution rows and the lines were read at lines 548-555; no request
\* considered writes them.)
NotifyUnits(r) ==
  /\ req[r].pc = "notify"
  /\ LET tokenByUnit == TokenByUnit(approvals, req[r].id)
         lines == budgetLines[req[r].id]
         first == FirstThrown(budgetUnitContributions, lines, req[r].id,
                              req[r].unitsList, tokenByUnit)
     IN /\ emails' = emails \cup
             SendShareEmails(r, budgetUnitContributions, lines, req[r].id,
                             req[r].unitsList, tokenByUnit)
        /\ req' = [req EXCEPT ![r] =
             RespondSend(@, IF first <= Len(req[r].unitsList) THEN "threw"
                            ELSE "200 Sent for approval")]
  /\ UNCHANGED <<approvals, periods, unitCount, now>>
  /\ UNCHANGED <<tdbVars, budgetVars>>

NextNotify ==
  \/ \E r \in Senders, id \in SendTargets : ReceiveSend(r, id)
  \/ \E r \in Senders : SelectPeriod(r)
  \/ \E r \in Senders : SelectExisting(r)
  \/ \E r \in Senders : InsertAndCommit(r)
  \/ \E r \in Senders : NotifyUnits(r)

SpecNotify == InitNotify /\ [][NextNotify]_vars

(***************************************************************************)
(* Properties of tenantSchemaName / tenantDb.                              *)
(***************************************************************************)
\* The allow-list as the specification states it: 1 to 64 characters, each
\* one of a-z, 0-9, '_' or '-'.
AllowedCharacters ==
  {"a","b","c","d","e","f","g","h","i","j","k","l","m","n","o","p","q","r",
   "s","t","u","v","w","x","y","z","0","1","2","3","4","5","6","7","8","9",
   "_","-"}

AllowListed(slug) ==
  /\ Len(slug) >= 1
  /\ Len(slug) <= 64
  /\ \A i \in 1..Len(slug) : slug[i] \in AllowedCharacters

WritesOf(c) == {w \in committed : w.call = c}

\* C1: if fn fails after N >= 0 successful writes, none of those writes is
\* visible in the database once the call has ended, and the call ends by
\* re-raising fn's failure to the caller.
C1_FnFailureRolledBackAndReraised ==
  \A c \in Calls :
    (call[c].pc = "done" /\ call[c].caught = "FnError")
      => /\ WritesOf(c) = {}
         /\ call[c].result = "threw"
         /\ call[c].thrown = "FnError"

\* The part of C1 that the code does keep: no write of a call whose fn
\* failed is ever committed, and the call ends with an error.
FnFailureCommitsNothing ==
  \A c \in Calls :
    call[c].caught = "FnError"
      => /\ WritesOf(c) = {}
         /\ call[c].pc = "done" => call[c].result = "threw"

\* C2: for every slug outside the allow-list tenantSchemaName fails with the
\* invalid-tenant-slug error, and so does tenantDb, before any pool
\* connection is acquired, any transaction begun or the callback invoked.
C2_InvalidSlugAcquiresNothing ==
  \A c \in Calls :
    (call[c].pc # "idle" /\ ~AllowListed(call[c].slug))
      => /\ ~tenantSchemaName(call[c].slug).ok
         /\ tenantSchemaName(call[c].slug).error = InvalidTenantSlug
         /\ call[c].pc = "done"
         /\ call[c].result = "threw"
         /\ call[c].thrown = InvalidTenantSlug
         /\ call[c].connects = 0
         /\ call[c].begins = 0
         /\ call[c].fnCalls = 0
         /\ call[c].client = NoClient

C2_Witness ==
  \E c, d \in Calls :
    /\ call[c].pc = "done" /\ Len(call[c].slug) = MAX_SLUG_LENGTH + 1
    /\ call[c].thrown = InvalidTenantSlug
    /\ call[d].pc = "done" /\ call[d].slug = <<"a", " ">>
    /\ call[d].thrown = InvalidTenantSlug

CheckedOut == Cardinality({c \in Calls : call[c].client # NoClient})

\* C3: every connection a call acquires is released exactly once, on every
\* path, and only after the COMMIT or ROLLBACK has been attempted; a call
\* that has returned or thrown holds no connection, and every open
\* connection is either idle in the pool or held by a call in flight.
C3_ReleasedExactlyOnce ==
  /\ \A c \in Calls :
       /\ call[c].connects <= 1
       /\ call[c].releases <= call[c].connects
       /\ call[c].pc = "done"
            => /\ call[c].releases = call[c].connects
               /\ call[c].client = NoClient
               /\ call[c].connects = 1 => call[c].releasedAfterEnd
       /\ call[c].pc \in {"idle", "connect"} => call[c].client = NoClient
  /\ pool.open = BagCardinality(pool.idle) + CheckedOut

C3_Witness ==
  \E c, d \in Calls :
    /\ call[c].pc = "done" /\ call[c].caught = "CommitError"
    /\ call[c].rollbackFailed /\ call[c].releases = 1
    /\ call[d].pc = "done" /\ call[d].caught = "BeginError"
    /\ call[d].releases = 1

\* C4: when fn fails with error E and the ROLLBACK that follows fails too,
\* the call re-raises E, not the rollback error, and the connection is
\* released.
C4_RollbackFailureSwallowed ==
  \A c \in Calls :
    (call[c].pc = "done" /\ call[c].caught = "FnError" /\ call[c].rollbackFailed)
      => /\ call[c].thrown = "FnError"
         /\ call[c].releases = 1

\* C5: while fn runs for a tenant its connection's search path is exactly
\* [tenant_<slug>, public]; a connection in the pool carries no tenant
\* search path and no open transaction; and every write, pending or
\* committed, went to the schema of the tenant of the call that issued it.
C5_SearchPathTransactionLocal ==
  /\ \A c \in Calls :
       /\ call[c].pc = "fn"
            => call[c].client.path = <<TenantPrefix \o call[c].slug, Public>>
       /\ \A w \in call[c].client.pending :
            w.schema = TenantPrefix \o call[w.call].slug
  /\ \A cn \in BagToSet(pool.idle) :
       cn.path = DefaultPath /\ cn.txn = "none" /\ cn.pending = {}
  /\ \A w \in committed : w.schema = TenantPrefix \o call[w.call].slug

\* A call for one tenant has committed and returned its connection; a call
\* for another tenant is writing on that same connection.
C5_Witness ==
  \E c, d \in Calls :
    /\ call[c].pc = "done" /\ call[c].result = "returned" /\ WritesOf(c) # {}
    /\ call[d].pc = "fn" /\ call[d].nWrites >= 1
    /\ call[c].slug # call[d].slug
    /\ pool.open = 1

(***************************************************************************)
(* Properties of the approval workflow.                                    *)
(***************************************************************************)
\* The budget_approvals row a (periodId, token) pair names, NoApproval when
\* there is none.
RowOf(id, token) ==
  IF \E i \in DOMAIN approvals :
       approvals[i].budgetPeriodId = id /\ approvals[i].token = token
  THEN approvals[CHOOSE i \in DOMAIN approvals :
                   approvals[i].budgetPeriodId = id /\ approvals[i].token = token]
  ELSE NoApproval

\* The request looks its row up in this step.
Looks(r) == req[r].pc = "select" /\ req'[r] # req[r]

\* C6: in every reachable state, under any interleaving of approve and
\* reject requests, no budget_approvals row has both approvedAt and
\* rejectedAt set.
C6_NeverApprovedAndRejected ==
  \A i \in DOMAIN approvals :
    ~(approvals[i].approvedAt # Null /\ approvals[i].rejectedAt # Null)

\* C7: a reject request that finds its row approved, and an approve request
\* that finds its row rejected, is answered with the conflicting-response
\* error in that very step and ends there, and the step changes no row of
\* budget_approvals (approvedAt, rejectedAt and rejectionReason stay as the
\* first call left them) and no period.
C7_ConflictingResponseRefused ==
  [][\A r \in Requests :
       LET row == RowOf(req[r].id, req[r].token)
           conflict ==
             \/ req[r].kind = "reject" /\ row.approvedAt # Null
             \/ req[r].kind = "approve" /\ row.rejectedAt # Null /\ row.approvedAt = Null
       IN  (Looks(r) /\ row # NoApproval /\ conflict)
             => /\ req'[r].pc = "done"
                /\ req'[r].response \in {"400 You have already approved this budget",
                                         "400 You have already declined this budget"}
                /\ approvals' = approvals
                /\ periods' = periods]_vars

\* An approval followed by a refused rejection of the same token.
C7_Witness ==
  \E r, q \in Requests :
    /\ req[r].response = "200 Approval recorded"
    /\ req[q].response = "400 You have already approved this budget"
    /\ req[q].token = req[r].token
    /\ RowOf(1, req[r].token).approvedAt # Null
    /\ RowOf(1, req[r].token).rejectedAt = Null

\* C8: an approve request that finds its row already approved answers
\* "Already approved" in that very step and ends there: no row and no period
\* is written, the approved-unit count of the period is unchanged, and the
\* request never recounts.
C8_SecondApproveIsNoOp ==
  [][\A r \in Requests :
       LET row == RowOf(req[r].id, req[r].token)
       IN  (Looks(r) /\ req[r].kind = "approve" /\ row.approvedAt # Null)
             => /\ req'[r].pc = "done"
                /\ req'[r].response = "200 Already approved"
                /\ req'[r].approvedUnitCount = 0
                /\ approvals' = approvals
                /\ periods' = periods
                /\ CountApprovedUnits(approvals', req[r].id)
                     = CountApprovedUnits(approvals, req[r].id)]_vars

C8_Witness ==
  \E r, q \in Requests :
    /\ req[r].response = "200 Approval recorded"
    /\ req[q].response = "200 Already approved"
    /\ req[q].token = req[r].token
    /\ CountApprovedUnits(approvals, 1) = 1

\* The smallest integer k with 3k >= 2n.
TwoThirdsCeiling(n) == CHOOSE k \in 0..n : 3 * k >= 2 * n /\ 3 * (k - 1) < 2 * n

AllCompleted == \A r \in Requests : req[r].pc \in {"idle", "done"}

\* C9: period 1 having been proposed, once every request has completed and
\* at least ceil(2/3 x unit count) distinct units have approvedAt set, the
\* period's status is approved, whatever the interleaving.
C9_QuorumNeverLost ==
  (AllCompleted /\ CountApprovedUnits(approvals, 1) >= TwoThirdsCeiling(unitCount))
    => periods[1].status = "approved"

\* Two approve requests whose writes both preceded both recounts.
C9_Witness ==
  \E r, q \in Requests :
    /\ r # q
    /\ AllCompleted
    /\ req[r].response = "200 Approval recorded" /\ req[r].approvedUnitCount = 2
    /\ req[q].response = "200 Approval recorded" /\ req[q].approvedUnitCount = 2
    /\ periods[1].status = "approved"

\* C10: the required approval count of a building of n units is the
\* smallest k with 3k >= 2n (7 for 10 units, 2 for 3, 1 for 1), and after
\* any sequence of approve requests the period is approved exactly when the
\* approved-unit count has reached k.
C10_QuorumIsCeilingOfTwoThirds ==
  /\ RequiredApprovalCount(unitCount) = TwoThirdsCeiling(unitCount)
  /\ unitCount = 10 => RequiredApprovalCount(unitCount) = 7
  /\ unitCount = 3 => RequiredApprovalCount(unitCount) = 2
  /\ unitCount = 1 => RequiredApprovalCount(unitCount) = 1
  /\ periods[1].status = "approved"
       <=> CountApprovedUnits(approvals, 1) >= TwoThirdsCeiling(unitCount)
  /\ periods[1].status \in {"proposed", "approved"}

\* Ten units, six approvals: one short of the quorum, the period still
\* proposed.
C10_Witness ==
  /\ unitCount = 10
  /\ CountApprovedUnits(approvals, 1) = 6
  /\ periods[1].status = "proposed"
  /\ req[1].response = "200 Approval recorded"

\* C11: once a period's status is approved, no step changes its row: a later
\* approval is recorded on its budget_approvals row only, and the period's
\* status and approvedAt stay as the first promotion left them.
C11_ApprovedPeriodNotRewritten ==
  [][\A i \in DOMAIN periods :
       periods[i].status = "approved" => periods'[i] = periods[i]]_vars

\* The request writes its rejection in this step.
Rejects(r) == req[r].pc = "update" /\ req[r].kind = "reject" /\ req'[r] # req[r]

\* C12: the write of a reject request sets rejectedAt and rejectionReason of
\* the row it looked up, the reason being at most 2000 characters long, and
\* nothing else: every other column of that row, every other row, every
\* period and the approved-unit count of the period stay as they were.
C12_RejectWritesOnlyItsRow ==
  [][\A r \in Requests :
       Rejects(r) =>
         /\ periods' = periods
         /\ CountApprovedUnits(approvals', req[r].id) = CountApprovedUnits(approvals, req[r].id)
         /\ DOMAIN approvals' = DOMAIN approvals
         /\ \A i \in DOMAIN approvals :
              IF approvals[i].id = req[r].approval.id
              THEN /\ approvals'[i] = [approvals[i] EXCEPT
                                         !.rejectedAt = approvals'[i].rejectedAt,
                                         !.rejectionReason = approvals'[i].rejectionReason]
                   /\ approvals'[i].rejectedAt = now
                   /\ Len(approvals'[i].rejectionReason) <= 2000
              ELSE approvals'[i] = approvals[i]]_vars

\* A pending token declined with a reason of more than 2000 characters,
\* stored cut to the first 2000, beside a row that is still pending.
C12_Witness ==
  \E r \in Requests, i, j \in DOMAIN approvals :
    /\ req[r].response = "200 Decline recorded"
    /\ approvals[i].token = req[r].token
    /\ approvals[i].rejectedAt # Null
    /\ approvals[i].approvedAt = Null
    /\ approvals[i].rejectionReason = Repeat("x", 2000)
    /\ j # i
    /\ approvals[j] = PendingApproval(j, 1, j, j)
    /\ periods[1].status = "proposed"
    /\ periods[1].approvedAt = Null

\* C13: an approve or reject request whose (periodId, token) pair names no
\* row, because the token was never issued or was issued for another
\* period, is answered with 404 in its lookup step and ends there; the step
\* changes no row of budget_approvals and no period.
C13_UnknownTokenChangesNothing ==
  [][\A r \in Requests :
       (Looks(r) /\ RowOf(req[r].id, req[r].token) = NoApproval)
         => /\ req'[r].pc = "done"
            /\ req'[r].response = "404 Approval link not found or invalid"
            /\ approvals' = approvals
            /\ periods' = periods]_vars

\* A token of period 1 presented for period 2 and a token never issued,
\* one to approve and one to reject, both answered 404 with every row
\* still pending.
C13_Witness ==
  \E r, q \in Requests :
    /\ req[r].kind = "approve" /\ req[r].id = 2 /\ req[r].token = 1
    /\ req[q].kind = "reject" /\ req[q].id = 1 /\ req[q].token = UnknownToken
    /\ req[r].response = "404 Approval link not found or invalid"
    /\ req[q].response = "404 Approval link not found or invalid"
    /\ \A i \in DOMAIN approvals : approvals[i] = PendingApproval(i, 1, i, i)
    /\ periods[1].status = "proposed"
    /\ periods[1].approvedAt = Null
    /\ periods[2] = Period("draft")

(***************************************************************************)
(* Properties of send-for-approval.                                        *)
(***************************************************************************)
\* The budget_approvals rows of a period.
TokensOf(id) == {i \in DOMAIN approvals : approvals[i].budgetPeriodId = id}

\* The mails a request dispatched.
EmailsBy(r) == {e \in emails : e.by = r}

\* C14: in every reachable state there is at most one budget_approvals row
\* per (budget period, unit), also when two send-for-approval requests for
\* the same draft period run concurrently.
C14_OneApprovalPerPeriodAndUnit ==
  \A i, j \in DOMAIN approvals :
    (approvals[i].budgetPeriodId = approvals[j].budgetPeriodId
       /\ approvals[i].unitId = approvals[j].unitId) => i = j

\* C15: when one send-for-approval request has completed on a draft period
\* and nothing else has run, the period has one token per unit, its status
\* is proposed and sentForApprovalAt is set, and one mail per unit went
\* out; a second send-for-approval request for the same period that starts
\* then ends at its first database step without writing a row, changing
\* the period or dispatching a mail, so the token count and
\* sentForApprovalAt stay as they are.
C15_SecondSendIsNoOp ==
  [][\A q, r \in SendRequests :
       (/\ q # r
        /\ req[q].kind = "send" /\ req[q].response = "200 Sent for approval"
        /\ req[r].kind = "send" /\ req[r].pc = "period" /\ req[r].id = req[q].id
        /\ \A o \in SendRequests \ {q, r} : req[o].pc = "idle")
         => /\ Cardinality(TokensOf(req[q].id)) = unitCount
            /\ C14_OneApprovalPerPeriodAndUnit
            /\ periods[req[q].id].status = "proposed"
            /\ periods[req[q].id].sentForApprovalAt # Null
            /\ Cardinality(EmailsBy(q)) = unitCount
            /\ req'[r] # req[r]
                 => /\ req'[r].pc = "done"
                    /\ approvals' = approvals
                    /\ periods' = periods
                    /\ emails' = emails]_vars

\* Two sends in sequence on a building of two units: two tokens, two mails,
\* all of the first request.
C15_Witness ==
  \E q, r \in SendRequests :
    /\ q # r
    /\ req[q].kind = "send" /\ req[q].response = "200 Sent for approval"
    /\ req[r].kind = "send" /\ req[r].id = req[q].id /\ req[r].pc = "done"
    /\ req[r].response = "400 Budget can only be sent for approval when status is draft"
    /\ \A o \in SendRequests \ {q, r} : req[o].pc = "idle"
    /\ unitCount = 2
    /\ Cardinality(TokensOf(1)) = 2
    /\ Cardinality(emails) = 2
    /\ EmailsBy(r) = {}
    /\ periods[1].status = "proposed"

\* C16: a send-for-approval request that reads a period whose status is
\* proposed, approved or closed is answered 400 "only when status is draft"
\* in that step and ends there: the step inserts no row, leaves the period
\* (status and sentForApprovalAt) as it is and dispatches no mail.
C16_NonDraftRefused ==
  [][\A r \in SendRequests :
       (/\ req[r].kind = "send" /\ req[r].pc = "period" /\ req'[r] # req[r]
        /\ req[r].id \in DOMAIN periods
        /\ periods[req[r].id].status \in {"proposed", "approved", "closed"})
         => /\ req'[r].pc = "done"
            /\ req'[r].response
                 = "400 Budget can only be sent for approval when status is draft"
            /\ approvals' = approvals
            /\ periods' = periods
            /\ emails' = emails]_vars

\* A period closed by PATCH, then a send refused: no token, no mail.
C16_Witness ==
  \E q, r \in SendRequests :
    /\ req[q].kind = "patch" /\ req[q].response = "200"
    /\ req[r].kind = "send" /\ req[r].id = 1
    /\ req[r].response = "400 Budget can only be sent for approval when status is draft"
    /\ periods[1].status = "closed"
    /\ periods[1].sentForApprovalAt = Null
    /\ approvals = <<>>
    /\ emails = {}

\* C17: a send-for-approval request that finds tokens already present for
\* its period, the period being a draft still, dispatches no mail and
\* leaves the period and the tokens as they are.
C17_ExistingTokensNotResent ==
  [][\A r \in SendRequests :
       (/\ req[r].kind = "send" /\ req[r].pc = "notify" /\ req[r].existing > 0
        /\ periods[req[r].id].status = "draft")
         => /\ emails' = emails
            /\ periods' = periods
            /\ approvals' = approvals]_vars

(***************************************************************************)
(* Properties of POST /periods.                                            *)
(***************************************************************************)
\* The budget_unit_contributions rows of a period.
ContributionsOf(id) ==
  {i \in DOMAIN budgetUnitContributions : budgetUnitContributions[i].budgetPeriodId = id}

\* The synthetic lines of a period.
SyntheticLines(id) ==
  {i \in DOMAIN budgetLines[id] : budgetLines[id][i].sortOrder = -1}

\* What a reader sees of period id: nothing at all while its row is not
\* there; with the row, the ledger row of its building, one contribution
\* row for each unit of the building and the synthetic line.
SeenWhole(id) ==
  IF periods[id] = NoPeriod
  THEN /\ ContributionsOf(id) = {}
       /\ budgetLines[id] = <<>>
  ELSE /\ \E i \in DOMAIN buildingFinancials :
            buildingFinancials[i].buildingId = periods[id].buildingId
       /\ Cardinality(ContributionsOf(id)) = unitCount
       /\ \A u \in 1..unitCount :
            \E i \in ContributionsOf(id) : budgetUnitContributions[i].unitId = u
       /\ Cardinality(SyntheticLines(id)) = 1
       /\ budgetLines[id][1].description = "Unit contributions"

\* C18: POST /periods is all-or-nothing.  After every step, each period id
\* handed out shows either nothing or the whole of it, every ledger row
\* belongs to a building for which a period shows, and a step in which a
\* request fails leaves every table as it was; a step that makes a period
\* show makes all the rows written for it show with it.
C18_CreateIsAllOrNothing ==
  [][/\ DOMAIN budgetLines' = DOMAIN periods'
     /\ \A id \in DOMAIN periods' : SeenWhole(id)'
     /\ \A i \in DOMAIN buildingFinancials' :
          \E id \in DOMAIN periods' :
            /\ periods'[id] # NoPeriod
            /\ periods'[id].buildingId = buildingFinancials'[i].buildingId
     /\ \A r \in Creators :
          /\ (req[r].pc # "done" /\ req'[r].response = "threw")
               => /\ periods' = periods
                  /\ budgetLines' = budgetLines
                  /\ budgetUnitContributions' = budgetUnitContributions
                  /\ buildingFinancials' = buildingFinancials
          /\ (req[r].pc # "done" /\ req'[r].response = "201")
               => /\ periods[req[r].id] = NoPeriod
                  /\ periods'[req[r].id] = req[r].tx.period
                  /\ budgetLines'[req[r].id] = req[r].tx.lines
                  /\ Cardinality(ContributionsOf(req[r].id)') = Len(req[r].tx.contributions)
     ]_vars

\* One request failed after its period row was written, another one
\* committed: period, ledger row, two contributions, the synthetic line.
C18_Witness ==
  \E r, q \in Creators :
    /\ req[r].response = "threw" /\ req[r].id # 0
    /\ periods[req[r].id] = NoPeriod
    /\ req[q].response = "201"
    /\ periods[req[q].id].status = "draft"
    /\ unitCount = 2
    /\ Cardinality(ContributionsOf(req[q].id)) = 2
    /\ Len(buildingFinancials) = 1
    /\ Len(budgetUnitContributions) = 2

\* The yearly amount per unit of a building, from the fee templates.
RECURSIVE YearlySum(_, _)
YearlySum(k, bid) ==
  IF k = 0 THEN 0
  ELSE YearlySum(k - 1, bid)
       + (IF feeTemplates[k].buildingId \notin {bid, Null} THEN 0
          ELSE IF feeTemplates[k].frequency = "monthly" THEN 12 * feeTemplates[k].amount
          ELSE feeTemplates[k].amount)

\* C19: every period has exactly one contribution row for each unit of its
\* building, each of the building's yearly amount per unit (the sum over the
\* fee templates of the building or of no building, a monthly amount
\* counted twelve times), and exactly one line of sortOrder -1: recurring,
\* described "Unit contributions", its amount the yearly amount per unit
\* times the number of units; without fee templates the amounts are 0 and
\* the line is there.
C19_ContributionsFromFeeTemplates ==
  \A id \in DOMAIN periods :
    periods[id] # NoPeriod =>
      LET perUnit == YearlySum(Len(feeTemplates), periods[id].buildingId) IN
        /\ \A u \in 1..unitCount :
             Cardinality({i \in ContributionsOf(id) :
                            budgetUnitContributions[i].unitId = u}) = 1
        /\ \A i \in ContributionsOf(id) :
             /\ budgetUnitContributions[i].unitId \in 1..unitCount
             /\ budgetUnitContributions[i].amount = perUnit
        /\ Cardinality(SyntheticLines(id)) = 1
        /\ \A i \in SyntheticLines(id) :
             budgetLines[id][i] =
               Line(id, "recurring", "Unit contributions", perUnit * unitCount, -1)

\* Two units, a monthly fee of 20.00 for the building, a yearly fee of
\* 100.50 for every building and a fee of another building: 340.50 per
\* unit and a line of 681.00.
C19_Witness ==
  \E r \in Creators :
    /\ req[r].response = "201"
    /\ unitCount = 2
    /\ Len(feeTemplates) = 3
    /\ \A i \in ContributionsOf(req[r].id) : budgetUnitContributions[i].amount = 34050
    /\ Cardinality(ContributionsOf(req[r].id)) = 2
    /\ budgetLines[req[r].id][1].amount = 68100
    /\ budgetLines[req[r].id][1].sortOrder = -1

\* The periods of a building of an earlier year than `year`, of the latest
\* such year.
MostRecentPrior(bid, year) ==
  LET prior == {i \in DOMAIN periods : /\ periods[i] # NoPeriod
                                       /\ periods[i].buildingId = bid
                                       /\ periods[i].year < year}
  IN  {i \in prior : ~ \E j \in prior : periods[j].year > periods[i].year}

\* The lines of period p that are carried forward.
CarriedFrom(p) ==
  {i \in DOMAIN budgetLines[p] : /\ budgetLines[p][i].category = "recurring"
                                 /\ budgetLines[p][i].description # "Unit contributions"}

C25_ValidSlugSchemaName ==
  \A c \in Calls :
    (call[c].pc = "connect" /\ AllowListed(call[c].slug))
      => /\ LET name == tenantSchemaName(call[c].slug) IN
              /\ name.ok
              /\ name.value = <<"t","e","n","a","n","t","_">> \o call[c].slug
              /\ call[c].schemaName = name.value
         /\ \A d \in Calls :
              (call[d].pc # "idle" /\ call[d].slug = call[c].slug)
                => call[d].schemaName = call[c].schemaName
         /\ call[c].connects = 0
         /\ call[c].begins = 0
         /\ call[c].fnCalls = 0
         /\ call[c].client = NoClient

C25_Witness ==
  \E c, d \in Calls :
    /\ c # d
    /\ call[c].pc = "connect" /\ Len(call[c].slug) = MAX_SLUG_LENGTH
    /\ Len(call[c].schemaName) = MAX_SLUG_LENGTH + 7
    /\ call[d].pc = "done" /\ call[d].slug = <<"a">>
    /\ call[d].schemaName = <<"t","e","n","a","n","t","_","a">>
    /\ call[d].result = "returned"

(***************************************************************************)
(* requireTenant.                                                          *)
(***************************************************************************)
\* The tenant slug a request supplies: the X-Tenant header, or the
\* tenantSlug of the body when the header is absent or empty.
SuppliedSlug(q) ==
  IF q.header.type = "string" /\ q.header.str # "" THEN q.header
  ELSE IF q.body.present THEN q.body.tenantSlug
  ELSE Undefined

SlugSupplied(q) ==
  LET v == SuppliedSlug(q) IN
    ~(v.type = "undefined" \/ v = Str("") \/ v = Num(0))

\* C26: requireTenant sets req.tenantSlug and calls next only when the
\* request has an authenticated user, a tenant slug is supplied and that
\* slug is among the user's tenantSlugs; otherwise it responds 401 (no
\* user), 400 (no slug) or 403 (slug not among the user's tenants), in that
\* order, never calls next and never sets req.tenantSlug.
C26_RequireTenantGate ==
  \A r \in AuthRequests :
    req[r].pc = "done" =>
      LET q == req[r]
          member == /\ SuppliedSlug(q).type = "string"
                    /\ SuppliedSlug(q).str \in q.user.tenantSlugs
      IN IF q.user.present /\ SlugSupplied(q) /\ member
         THEN /\ q.nextCalls = 1
              /\ q.tenantSlug = SuppliedSlug(q)
              /\ q.status = 0
         ELSE /\ q.nextCalls = 0
              /\ q.tenantSlug = Undefined
              /\ q.status = IF ~q.user.present THEN 401
                            ELSE IF ~SlugSupplied(q) THEN 400 ELSE 403

C26_Witness ==
  \E r, q \in AuthRequests :
    /\ req[r].pc = "done" /\ req[r].user = AuthUser({"my-tenant", "other"})
    /\ req[r].header = Str("my-tenant")
    /\ req[r].nextCalls = 1 /\ req[r].tenantSlug = Str("my-tenant")
    /\ req[q].pc = "done" /\ req[q].user = AuthUser({"foo"})
    /\ req[q].header = Str("other-tenant") /\ req[q].body = Body(Str("foo"))
    /\ req[q].status = 403 /\ req[q].nextCalls = 0

(***************************************************************************)
(* createTenant.                                                           *)
(***************************************************************************)
\* What call c has written, committed or pending on any session.
WrittenBy(c) ==
  {f \in committed.rows : f.by = c}
    \cup UNION { {f \in pool.sess[i].pending : f.by = c} : i \in ConnIds }

SlugExists(slug) ==
  \E f \in committed.rows : f.kind = "tenant" /\ f.name = slug

\* C23: if the slug already exists, the tenant insert fails with the unique
\* violation before CREATE SCHEMA runs, the transaction is rolled back and
\* no tenant row, no schema and no tenant_users row is created; the
\* migrations and the owner assignment are never attempted.
C23_ExistingSlugFailsCleanly ==
  [][\A c \in Calls :
       /\ (/\ call[c].pc = "insert" /\ call'[c].pc # "insert"
           /\ SlugExists(call[c].slug))
            => /\ call'[c].pc = "catch"
               /\ call'[c].caught = "UniqueViolation"
               /\ committed' = committed
       /\ call'[c].failedAt = "insert"
            => /\ {f \in committed'.rows : f.by = c} = {}
               /\ \A i \in ConnIds : {f \in pool'.sess[i].pending : f.by = c} = {}
               /\ call'[c].tenantId = 0
               /\ call'[c].mclient = 0 /\ call'[c].stmts = 0
               /\ call'[c].pc \in {"catch", "done"}
               /\ call'[c].pc = "done"
                    => /\ call'[c].thrown = "UniqueViolation"
                       /\ call'[c].result = "threw"
               /\ (call[c].pc = "catch" /\ call'[c].pc = "done")
                    => /\ pool'.sess[call[c].client].txn = "none"
                       /\ call[c].client \in pool'.idle
     ]_vars

C23_Witness ==
  \E c, d \in Calls :
    /\ call[c].pc = "done" /\ call[c].failedAt = "insert"
    /\ call[c].slug = SlugB /\ call[c].thrown = "UniqueViolation"
    /\ WrittenBy(c) = {}
    /\ TenantFact(call[d].tenantId, SlugB, d) \in committed.rows

\* C24: if the migration batch or the owner assignment fails after step 1
\* has committed, the tenant row and its schema persist; a failed migration
\* batch leaves the schema with none of the migrations applied and no owner
\* row, a failed owner assignment leaves a fully migrated tenant with no
\* org_owner membership.
C24_PartialProvisioningPersists ==
  \A c \in Calls :
    (call[c].pc = "done" /\ call[c].failedAt \in {"migrate", "owner"})
      => /\ TenantFact(call[c].tenantId, call[c].slug, c) \in committed.rows
         /\ \E f \in committed.rows : f.kind = "schema" /\ f.name = call[c].schemaName
         /\ ~\E f \in committed.rows :
               f.kind = "tenant_user" /\ f.id = call[c].tenantId
         /\ call[c].failedAt = "migrate"
              => ~\E f \in committed.rows :
                    f.kind = "migration" /\ f.name = call[c].schemaName
         /\ call[c].failedAt = "owner"
              => \A n \in 1..MaxStatements :
                   \E f \in committed.rows :
                     f.kind = "migration" /\ f.name = call[c].schemaName /\ f.n = n

\* C29: createTenant releases the connection it acquired exactly once on
\* every path: after the rollback when step 1 fails, and not a second time
\* when the migrations or the owner assignment fail after step 1 has
\* committed and released it; the error that reaches the caller is then the
\* original migration or insert failure.
C29_ClientReleasedOnce ==
  \A c \in Calls :
    call[c].pc = "done"
      => /\ call[c].releaseCalls = 1
         /\ call[c].result = "threw" => call[c].thrown = call[c].caught

(***************************************************************************)
(* The building ledger.                                                    *)
(***************************************************************************)
\* currentBalance of the building's ledger row as committed, 0 without one.
CurrentBalance(bid) ==
  LET fin == {i \in DOMAIN buildingFinancials : buildingFinancials[i].buildingId = bid}
  IN  IF fin = {} THEN 0 ELSE buildingFinancials[CHOOSE i \in fin : TRUE].currentBalance

Visible(pers, id) == id \in DOMAIN pers /\ pers[id] # NoPeriod

\* C21: a new period is created with status draft and an openingBalance
\* equal to the building's currentBalance when the creation read it (0,
\* with a zero-balance ledger row created, when the building has none);
\* transactions recorded afterwards change currentBalance but never the
\* openingBalance of an existing period.
C21_OpeningBalanceSnapshot ==
  [][/\ (req[PeriodCreator].pc = "fin" /\ req'[PeriodCreator].pc \in {"insert_fin", "period"})
          => req'[PeriodCreator].openingBalance = CurrentBalance(req[PeriodCreator].bid)
     /\ \A id \in DOMAIN periods' :
          (~Visible(periods, id) /\ Visible(periods', id))
            => /\ periods'[id].status = "draft"
               /\ periods'[id].openingBalance = req[PeriodCreator].openingBalance
               /\ \E i \in DOMAIN buildingFinancials' :
                    buildingFinancials'[i].buildingId = periods'[id].buildingId
               /\ req[PeriodCreator].tx.financials # <<>>
                    => /\ periods'[id].openingBalance = 0
                       /\ buildingFinancials' =
                            Append(buildingFinancials, Financials(periods'[id].buildingId, 0))
     /\ \A id \in DOMAIN periods :
          (Visible(periods, id) /\ Visible(periods', id))
            => periods'[id].openingBalance = periods[id].openingBalance
    ]_vars

C21_Witness ==
  /\ Visible(periods, 1)
  /\ periods[1].openingBalance = 10000
  /\ CurrentBalance(1) = 12551
  /\ Len(financialTransactions) = 2

RECURSIVE LedgerSum(_, _)
LedgerSum(rows, bid) ==
  IF rows = <<>> THEN 0
  ELSE (IF Head(rows).buildingId = bid THEN Head(rows).amount ELSE 0)
       + LedgerSum(Tail(rows), bid)

\* C22: once the concurrent record-transaction requests have all completed,
\* the building's currentBalance equals the sum of the amounts of all its
\* committed financial transactions.
C22_BalanceIsLedgerSum ==
  (\A r \in Recorders : req[r].pc \in {"idle", "done"})
    => CurrentBalance(1) = LedgerSum(financialTransactions, 1)

\* C30: a financial transaction that names a budgetPeriodId is inserted
\* only while that period is approved: never when the period is draft,
\* proposed, closed or absent at the moment of the insert.
C30_LinkedOnlyToApprovedPeriod ==
  [][\A r \in Recorders :
       (/\ req[r].pc = "insert" /\ req'[r].pc = "balance"
        /\ req[r].budgetPeriodId # Null)
         => /\ Visible(periods, req[r].budgetPeriodId)
            /\ periods[req[r].budgetPeriodId].status = "approved"
    ]_vars

(***************************************************************************)
(* Properties of the status of a budget period.                            *)
(***************************************************************************)
\* The status changes a request of the workflow may make: a draft is sent
\* for approval, a proposed budget is approved.
WorkflowMoves == {<<"draft", "proposed">>, <<"proposed", "approved">>}

\* A step of a send-for-approval or approve request (a PATCH /periods/:id
\* is the manager's own change of the status and leaves the requests as
\* they are).
WorkflowStep == req' # req

\* C27: a step of sendForApproval or approveByToken that changes the status
\* of a period takes it from draft to proposed or from proposed to
\* approved; in particular an approval with a still-pending token does not
\* make a period approved that was closed or set back to draft.
C27_StatusOnlyMovesForward ==
  [][WorkflowStep =>
       \A id \in DOMAIN periods :
         periods'[id].status # periods[id].status =>
           <<periods[id].status, periods'[id].status>> \in WorkflowMoves]_vars

(***************************************************************************)
(* Properties of the notifications of send-for-approval.                   *)
(***************************************************************************)
\* The units of a send request's list that have a token and no contribution
\* row for the request's period.
UnitsWithoutContribution(r) ==
  {req[r].unitsList[k] : k \in DOMAIN req[r].unitsList} \cap
  {u \in TokenByUnit(approvals, req[r].id) :
     ContributionByUnit(budgetUnitContributions, req[r].id, u) = Undefined}

\* The sum of the period's line amounts divided by the unit count, as the
\* mail spells it.
FlatAverageShare(id, n) ==
  FixedString((2 * TotalOfLines(budgetLines[id]) + n) \div (2 * n))

\* C28: when a send-for-approval request runs its notifications and a unit
\* with a token (and a member) has no contribution row for the period, the
\* request is answered 200, every unit with a token has its mail from the
\* request, and the mail of each unit without a contribution row carries
\* the flat average share.
C28_MissingContributionGetsFlatShare ==
  [][\A r \in Senders :
       (/\ req[r].kind = "send" /\ req[r].pc = "notify" /\ req'[r] # req[r]
        /\ UnitsWithoutContribution(r) # {})
         => /\ req'[r].response = "200 Sent for approval"
            /\ \A u \in TokenByUnit(approvals, req[r].id) :
                 \E e \in emails' : e.by = r /\ e.periodId = req[r].id /\ e.unitId = u
            /\ \A u \in UnitsWithoutContribution(r) :
                 \E e \in emails' :
                   /\ e.by = r /\ e.unitId = u
                   /\ e.sharePerUnit = FlatAverageShare(req[r].id, Len(req[r].unitsList))]_vars
====
